---- MODULE Spec2Model ----
(***************************************************************************)
(* Verification model of the SynchroTwin-AR sources.                       *)
(*                                                                         *)
(* From the sources:                                                       *)
(*   Dashboard          session controls                                   *)
(*   App                simulated tick, Start/Pause, Reset, resonanceData  *)
(*   service-status App plv_update listener                                *)
(*   useSynchronyUpdates, SynchronyMetrics   historicalData                *)
(*   resonance_window   fusion pseudocode of the research report           *)
(*   useWebSocket, NotificationPanel         notifications, read marks     *)
(*   useWebSocket       auto-connect effect, connection events             *)
(*   ServiceStatus      healthHistory, calculateUptime                     *)
(*   DataStreamMonitor  polling and stream requests in flight              *)
(*   BiofeedbackControls  session creation, config updates, thresholds     *)
(*                                                                         *)
(* From the design document, where the sources hold no code:               *)
(*   Synchrony Orchestrator, sink emission, session creation,              *)
(*   Stream Buffer, Window Extractor, Fusion & Confidence Engine           *)
(*                                                                         *)
(* Real numbers are fixed-point integers in units of 1/10000.              *)
(***************************************************************************)
EXTENDS Integers, Sequences, FiniteSets, TLC

(* ----------------------------- bounds ---------------------------------- *)
\* notification events that may be handled before React renders
MaxUnrendered == 2
\* interval callbacks of one App that may run before React renders
MaxPendingTicks == 1
\* largest value of the wall clock read by Date.now() / new Date()
MaxNow == 5
\* number of sessions the Dashboard may start in one run
MaxSessions == 3
\* ticks per App session between two resets, in SpecApp
MaxSessionTime == 2
\* ticks of App 1 in SpecAppLong, which starts from a nearly full buffer
LongSessionTime == 53
\* plv_update messages received in SpecPlv
MaxPlvUpdates == 23
\* plv_update payloads that differ from the usual one
MaxOddPayloads == 2
\* synchrony notifications handled in SpecMetrics
MaxUpdates == 3
\* largest notification.timestamp
MaxStamp == 2
\* ticks the orchestrator starts in SpecOrch
MaxTicks == 3
\* wall-clock budget of an estimator within a tick, in clock steps
TickBudget == 2
\* largest sample timestamp pushed into the stream buffer
MaxSampleT == 5
\* slots of the uniform time grid of an analysis window
WinLen == 6
\* notification events received in SpecNotif
MaxNotifEvents == 103
\* notification events received in SpecPanel
MaxPanelEvents == 3
\* notifications whose topic is not the usual one
MaxOddTopics == 1
\* Math.random() calls, over all Apps, whose result differs from the median
MaxOddDraws == 1

VARIABLES
  \* ---- Dashboard
  systemStatus,    \* useState('idle'): "idle" | "running" | "paused"
  activeSession,   \* useState(null): the session object or Null
  nextRef,         \* identity of the next object allocated by handleStartSession
  now,             \* wall clock (ms) as read by Date.now()
  \* ---- App, one entry per mounted component
  sessionTime,     \* useState(0)
  isRunning,       \* useState(false)
  resonanceData,   \* useState([])
  currentResonance,\* useState(0.32)
  interval,        \* TRUE while the setInterval of the tick effect is armed
  oddDraws,        \* Math.random() results so far that were not the median
  pendingTicks,    \* per App: the updates queued by interval callbacks, not yet rendered
  \* ---- service-status App (socket.io plv_update listener)
  plvData,         \* useState([])
  plvLog,          \* every plv_update payload received so far, in arrival order
  \* ---- useSynchronyUpdates + SynchronyMetrics
  synchronyData,   \* useState(null): notification.data.synchrony_metrics
  lastUpdate,      \* useState(null): new Date(notification.timestamp)
  historicalData,  \* useState([])
  updates,         \* notifications handled so far
  metDirty,        \* TRUE while values set by the handler have not been rendered
  \* ---- resonance_window (research report, appendix B)
  windows,         \* the arguments winA, winB as the estimators see them
  resonance,       \* << >> before the call, <<the returned record>> after it
  \* ---- Synchrony Orchestrator (design sections 4.7, 4.8 and 5)
  orchState,       \* "IDLE" | "ACTIVE" | "PAUSED" | "CLOSED"
  tickNo,          \* number of ticks started so far
  inFlight,        \* TRUE while the current tick has not been fused or cancelled
  est,             \* per estimator: "idle" | "running" | "valid" | "invalid" | "timedout"
  elapsed,         \* wall-clock time spent in the current tick
  lastOutcome,     \* tick, kind and fused estimators of the last completed tick
  emitted,         \* number of Resonance records emitted
  skipped,         \* number of ticks skipped because no estimator was valid
  \* ---- emission to the sink collaborator (design section 6)
  sinkUp,          \* FALSE while the sink is failing
  outbox,          \* local buffer of emitted records the sink has not taken yet
  resonanceSeq,    \* the session's ordered sequence of emitted records (by tick)
  delivered,       \* records the sink has taken
  \* ---- session creation and configuration (design sections 6 and 7)
  config,          \* the session's configuration, NoConfig while no session exists
  lastRequest,     \* the configuration of the last creation request
  createError,     \* "none" | "ConfigurationError": outcome of the last request
  \* ---- Stream Buffer of one channel (design section 4.1)
  sbuf,            \* the samples held, oldest first
  reading,         \* TRUE while a reader is consuming the result of its read
  readRange,       \* <<t0, t1>> of the last read
  snapshot,        \* the result of the last read, as copied when it was taken
  consumed,        \* what the reader has consumed of it so far
  bufAtRead,       \* the buffer as it was when the last read was taken
  \* ---- Window Extractor (design sections 3 and 4.2)
  slotsA,          \* grid slots of the window for which participant A has a sample
  slotsB,          \* the same for participant B
  extracted,       \* << >> before extract, <<the AnalysisWindow>> after it
  \* ---- Fusion & Confidence Engine (design section 4.7)
  results,         \* the EstimatorResult of each estimator for the tick
  fused,           \* << >> before fuse, <<the outcome of fuse>> after it
  \* ---- useWebSocket and NotificationPanel
  notifications,   \* useState([]) of the hook, newest first: all queued updates applied
  renderedNotifications, \* notifications as of the last render, which the panel shows
  unrendered, \* notification events handled since the last render
  notifLog,        \* every notification received so far, in arrival order
  filter,          \* useState('all')
  showRead,        \* useState(true)
  readNotifications, \* useState(new Set()): ids marked as read
  \* ---- ServiceStatus
  healthHistory, \* useState({}): per service name, the retained entries, oldest first
  lastCheck, \* useState(null): time of the last health result, 0 for null
  healthLog, \* per service the entry of every run of the effect so far, in order
  strictMode, \* TRUE in a development build under React.StrictMode
  healthQueue, \* setHealthHistory updaters queued since the last render
  statMounting, \* TRUE until the effects of the mount have run
  \* ---- useWebSocket connection state
  mounted, \* TRUE while a component using the hook is mounted
  isConnected, \* useState(false): the value set last
  renderedConnected, \* isConnected as of the last render, which the effect saw
  wsSessionId, \* useState(null), 0 for null
  connectionError, \* useState(null), "null" for null
  socket, \* the client's socket: "closed" | "connecting" | "open" | "closing"
  connectCalls, \* calls of webSocketClient.connect() so far
  disconnectCalls, \* calls of webSocketClient.disconnect() so far
  wsEvents, \* mounts and client events so far
  \* ---- DataStreamMonitor
  streams, \* useState([]): per stream id its status in the list, "absent" when not listed
  serverStreams, \* the streams as the data ingestion service holds them
  pendingLists, \* listStreams requests whose response has not arrived, with the response
  pendingOps, \* create, start, stop and delete requests whose response has not arrived
  issued, \* listStreams requests issued so far
  applied, \* number of the request whose response streams holds, 0 for none
  opsIssued, \* create, start, stop and delete requests issued so far
  isLoading, \* useState(false): createStream is under way
  renderedStreams, \* streams as of the last render: the list and buttons shown
  renderedLoading, \* isLoading as of the last render
  \* ---- BiofeedbackControls
  isSessionActive, \* the isSessionActive prop (systemStatus === 'running')
  bfSessionId, \* useState(null), 0 for null: the value set last
  bfIsLoading, \* useState(false)
  bfConfig, \* useState({...}): the thresholds of the local config set last
  notified, \* the argument of the last onConfigChange call, << >> before the first
  createCalls, \* calls of arBiofeedbackService.createSession so far
  pendingCreates, \* createSession requests whose response has not arrived
  pendingUpdates, \* updateSessionConfig requests whose response has not arrived
  serviceConfig, \* per session id the config the service holds, << >> for none
  configChanges, \* configuration changes and Reset clicks so far
  bfErrors, \* console.error calls so far
  renderedSessionId, \* sessionId as of the last render, which the handlers read
  renderedConfig, \* config as of the last render, which the handlers read
  renderedIsLoading, \* isLoading as of the last render, which disables the buttons
  pendingDefaults \* getDefaultConfig requests whose response has not arrived

dashVars == <<systemStatus, activeSession, nextRef, now>>
appVars == <<sessionTime, isRunning, resonanceData, currentResonance, interval, oddDraws,
             pendingTicks>>
plvVars == <<plvData, plvLog>>
metVars == <<synchronyData, lastUpdate, historicalData, updates, metDirty>>
fusVars == <<windows, resonance>>
orchVars == <<orchState, tickNo, inFlight, est, elapsed, lastOutcome, emitted, skipped>>
sinkVars == <<sinkUp, outbox, resonanceSeq, delivered>>
cfgVars == <<config, lastRequest, createError>>
bufVars == <<sbuf, reading, readRange, snapshot, consumed, bufAtRead>>
winVars == <<slotsA, slotsB, extracted>>
confVars == <<results, fused>>
notifVars == <<notifications, renderedNotifications, unrendered, notifLog, filter, showRead,
              readNotifications>>
statVars == <<healthHistory, lastCheck, healthLog, strictMode, healthQueue, statMounting>>
wsVars == <<mounted, isConnected, renderedConnected, wsSessionId, connectionError, socket, connectCalls, disconnectCalls, wsEvents>>
dsmVars == <<streams, serverStreams, pendingLists, pendingOps, issued, applied, opsIssued,
            isLoading, renderedStreams, renderedLoading>>
bfVars == <<isSessionActive, bfSessionId, bfIsLoading, bfConfig, notified, createCalls, pendingCreates, pendingUpdates, serviceConfig, configChanges, bfErrors,
           renderedSessionId, renderedConfig, renderedIsLoading, pendingDefaults>>
vars == <<dashVars, appVars, plvVars, metVars, fusVars, orchVars, sinkVars, cfgVars, bufVars,
          winVars, confVars, notifVars,
  statVars,
  wsVars,
  dsmVars,
  bfVars>>

notDash == <<appVars, plvVars, metVars, fusVars, orchVars, sinkVars, cfgVars, bufVars, winVars, confVars,
  notifVars,
  statVars,
  wsVars,
  dsmVars,
  bfVars>>
notApp == <<dashVars, plvVars, metVars, fusVars, orchVars, sinkVars, cfgVars, bufVars, winVars, confVars,
  notifVars,
  statVars,
  wsVars,
  dsmVars,
  bfVars>>
notPlv == <<dashVars, appVars, metVars, fusVars, orchVars, sinkVars, cfgVars, bufVars, winVars, confVars,
  notifVars,
  statVars,
  wsVars,
  dsmVars,
  bfVars>>
notMet == <<dashVars, appVars, plvVars, fusVars, orchVars, sinkVars, cfgVars, bufVars, winVars, confVars,
  notifVars,
  statVars,
  wsVars,
  dsmVars,
  bfVars>>
notFus == <<dashVars, appVars, plvVars, metVars, orchVars, sinkVars, cfgVars, bufVars, winVars, confVars,
  notifVars,
  statVars,
  wsVars,
  dsmVars,
  bfVars>>
notOrch == <<dashVars, appVars, plvVars, metVars, fusVars, sinkVars, cfgVars, bufVars, winVars, confVars,
  notifVars,
  statVars,
  wsVars,
  dsmVars,
  bfVars>>
notSink == <<dashVars, appVars, plvVars, metVars, fusVars, cfgVars, bufVars, winVars, confVars,
  notifVars,
  statVars,
  wsVars,
  dsmVars,
  bfVars>>
notCfg == <<dashVars, appVars, plvVars, metVars, fusVars, sinkVars, bufVars, winVars, confVars,
  notifVars,
  statVars,
  wsVars,
  dsmVars,
  bfVars>>
notBuf == <<dashVars, appVars, plvVars, metVars, fusVars, orchVars, sinkVars, cfgVars, winVars, confVars,
  notifVars,
  statVars,
  wsVars,
  dsmVars,
  bfVars>>
notWin == <<dashVars, appVars, plvVars, metVars, fusVars, orchVars, sinkVars, cfgVars, bufVars,
           confVars, notifVars,
  statVars,
  wsVars,
  dsmVars,
  bfVars>>
notConf == <<dashVars, appVars, plvVars, metVars, fusVars, orchVars, sinkVars, cfgVars, bufVars,
            winVars, notifVars,
  statVars,
  wsVars,
  dsmVars,
  bfVars>>
notNotif == <<dashVars, appVars, plvVars, metVars, fusVars, orchVars, sinkVars, cfgVars, bufVars,
             winVars, confVars,
  statVars,
  wsVars,
  dsmVars,
  bfVars>>
notStat == <<dashVars, appVars, plvVars, metVars, fusVars, orchVars, sinkVars, cfgVars, bufVars,
  winVars, confVars, notifVars,
  wsVars,
  dsmVars,
  bfVars>>
notWs == <<dashVars, appVars, plvVars, metVars, fusVars, orchVars, sinkVars, cfgVars, bufVars,
  winVars, confVars, notifVars, statVars,
  dsmVars,
  bfVars>>
notDsm == <<dashVars, appVars, plvVars, metVars, fusVars, orchVars, sinkVars, cfgVars, bufVars,
  winVars, confVars, notifVars, statVars, wsVars,
  bfVars>>
notBf == <<dashVars, appVars, plvVars, metVars, fusVars, orchVars, sinkVars, cfgVars, bufVars,
  winVars, confVars, notifVars, statVars, wsVars, dsmVars>>

(* --------------------------- Dashboard --------------------------------- *)
\* JavaScript null for activeSession; ref 0 is the identity of no object
Null == [ref |-> 0, id |-> 0, startTime |-> 0, participants |-> 0]

\* const handleStartSession = () => { setSystemStatus('running'); setActiveSession({...}) }
handleStartSession ==
  /\ systemStatus' = "running"
  /\ activeSession' = [ref |-> nextRef, id |-> now, startTime |-> now, participants |-> 2]
  /\ nextRef' = nextRef + 1
  /\ UNCHANGED now

\* a slip: pausing drops the session
handlePauseSessionDropsSession ==
  /\ systemStatus' = "paused"
  /\ activeSession' = Null
  /\ UNCHANGED <<nextRef, now>>

\* const handlePauseSession = () => { setSystemStatus('paused') }
handlePauseSession ==
  /\ systemStatus' = "paused"
  /\ UNCHANGED <<activeSession, nextRef, now>>

\* onClick={() => setSystemStatus('running')}
handleResumeSession ==
  /\ systemStatus' = "running"
  /\ UNCHANGED <<activeSession, nextRef, now>>

handleStopSessionKeepsSession ==
  /\ systemStatus' = "idle"
  /\ UNCHANGED <<activeSession, nextRef, now>>

\* const handleStopSession = () => { setSystemStatus('idle'); setActiveSession(null) }
handleStopSession ==
  /\ systemStatus' = "idle"
  /\ activeSession' = Null
  /\ UNCHANGED <<nextRef, now>>

\* {systemStatus === 'idle' && <Button onClick={handleStartSession}>}
ClickStartSession ==
  /\ systemStatus = "idle"
  /\ nextRef <= MaxSessions
  /\ handleStartSession
  /\ UNCHANGED notDash

\* {systemStatus === 'running' && <Button onClick={handlePauseSession}>}
ClickPause ==
  /\ systemStatus = "running"
  /\ handlePauseSession
  /\ UNCHANGED notDash

\* {systemStatus === 'paused' && <Button onClick={() => setSystemStatus('running')}>}
ClickResume ==
  /\ systemStatus = "paused"
  /\ handleResumeSession
  /\ UNCHANGED notDash

\* Stop Session button, rendered both when 'running' and when 'paused'
ClickStop ==
  /\ systemStatus \in {"running", "paused"}
  /\ handleStopSession
  /\ UNCHANGED notDash

\* time passes between two user actions
AdvanceClock ==
  /\ now < MaxNow
  /\ now' = now + 1
  /\ UNCHANGED <<systemStatus, activeSession, nextRef>>
  /\ UNCHANGED notDash

DashInit ==
  /\ systemStatus = "idle"
  /\ activeSession = Null
  /\ nextRef = 1
  /\ now = 0

DashNext ==
  \/ ClickStartSession
  \/ ClickPause
  \/ ClickResume
  \/ ClickStop
  \/ AdvanceClock

(* ------------------------------- App ----------------------------------- *)
\* the mounted App components: two independent demo sessions
Apps == {1, 2}

\* Math.random() returns a value of [0,1); three representatives
Median == 5000
Rand == {0, Median, 9990}

\* the four Math.random() calls of one tick, within what is left of the budget
RandomDraws(left) ==
  { d \in [1..4 -> Rand] : Cardinality({i \in 1..4 : d[i] # Median}) <= left }

OddCount(d) == Cardinality({i \in 1..4 : d[i] # Median})

Min(a, b) == IF a < b THEN a ELSE b
Max(a, b) == IF a > b THEN a ELSE b

\* Array.prototype.slice(-n), n > 0: the last n elements (all, when shorter)
SliceLast(arr, n) ==
  IF Len(arr) <= n THEN arr ELSE SubSeq(arr, Len(arr) - n + 1, Len(arr))

\* Array.prototype.slice(0, n): the first n elements
SliceFirst(arr, n) ==
  IF Len(arr) <= n THEN arr ELSE SubSeq(arr, 1, n)

\* number of points setResonanceData keeps: newData.slice(-50)
KeepPoints == 50

\* Math.max(0, Math.min(1, currentResonance + (Math.random() - 0.5) * 0.1))
NewResonance(cur, r) == Max(0, Min(10000, cur + (r - 5000) \div 10))

\* the data point built inside setResonanceData(prev => ...)
DataPoint(prev, newResonance, d) ==
  [ time      |-> Len(prev),
    resonance |-> newResonance,
    plv       |-> (d[2] * 8) \div 10 + 1000,
    envelope  |-> (d[3] * 7) \div 10 + 2000,
    crqa      |-> (d[4] * 6) \div 10 + 3000 ]

setResonanceDataKeepFirst(prev, newResonance, d) ==
  SliceFirst(Append(prev, DataPoint(prev, newResonance, d)), KeepPoints)

\* setResonanceData(prev => { const newData = [...prev, {...}]; return newData.slice(-50) })
setResonanceData(prev, newResonance, d) ==
  SliceLast(Append(prev, DataPoint(prev, newResonance, d)), KeepPoints)

\* useEffect(() => { let interval; if (isRunning) interval = setInterval(...);
\*                   return () => clearInterval(interval) }, [isRunning, currentResonance])
\* after a render: the cleanup has cleared the old interval, and a new one is
\* armed exactly when isRunning
TickEffect(armed, running) == running

\* the setInterval callback of instance s: it queues setSessionTime(prev =>
\* prev + 1), setCurrentResonance(newResonance) and setResonanceData(prev =>
\* ...) and returns; newResonance is computed from the currentResonance of
\* the render that armed the interval
TickCallback(s, limit, d) ==
  /\ interval[s]
  /\ sessionTime[s] + Len(pendingTicks[s]) < limit
  /\ Len(pendingTicks[s]) < MaxPendingTicks
  /\ pendingTicks' =
       [pendingTicks EXCEPT ![s] =
          Append(@, [resonance |-> NewResonance(currentResonance[s], d[1]), d |-> d,
                     rebased |-> FALSE])]
  /\ oddDraws' = oddDraws + OddCount(d)
  /\ UNCHANGED <<sessionTime, isRunning, resonanceData, currentResonance, interval>>
  /\ UNCHANGED notApp

\* sessionTime after the queued updates: a tick queued before a Reset is
\* replayed before the Reset's setSessionTime(0), which then overrides it
RECURSIVE RenderSessionTime(_, _)
RenderSessionTime(time, ticks) ==
  IF ticks = << >> THEN time
  ELSE RenderSessionTime(IF Head(ticks).rebased THEN time ELSE time + 1, Tail(ticks))

\* resonanceData after the queued updates, likewise
RECURSIVE RenderResonanceData(_, _)
RenderResonanceData(data, ticks) ==
  IF ticks = << >> THEN data
  ELSE RenderResonanceData(
         IF Head(ticks).rebased THEN data
         ELSE setResonanceData(data, Head(ticks).resonance, Head(ticks).d),
         Tail(ticks))

\* React renders the queued updates of instance s and runs the effect
AppRender(s) ==
  /\ pendingTicks[s] # << >>
  /\ sessionTime' = [sessionTime EXCEPT ![s] = RenderSessionTime(@, pendingTicks[s])]
  /\ currentResonance' =
       [currentResonance EXCEPT ![s] = pendingTicks[s][Len(pendingTicks[s])].resonance]
  /\ resonanceData' =
       [resonanceData EXCEPT ![s] = RenderResonanceData(@, pendingTicks[s])]
  /\ pendingTicks' = [pendingTicks EXCEPT ![s] = << >>]
  /\ interval' = [interval EXCEPT ![s] = TickEffect(@, isRunning[s])]
  /\ UNCHANGED <<isRunning, oddDraws>>
  /\ UNCHANGED notApp

\* Start/Pause button: onClick={() => setIsRunning(!isRunning)}; the click is
\* rendered at once, the updates queued by interval callbacks stay queued
ClickStartPause(s) ==
  /\ isRunning' = [isRunning EXCEPT ![s] = ~ @]
  /\ interval' = [interval EXCEPT ![s] = TickEffect(@, isRunning'[s])]
  /\ UNCHANGED <<sessionTime, resonanceData, currentResonance, oddDraws, pendingTicks>>
  /\ UNCHANGED notApp

\* Reset button: setSessionTime(0); setIsRunning(false); setResonanceData([]);
\* the click is rendered at once; the updates of sessionTime and
\* resonanceData that are still queued come before the Reset's in their
\* queues, so the later render replays the Reset after them
ClickReset(s) ==
  /\ sessionTime' = [sessionTime EXCEPT ![s] = 0]
  /\ isRunning' = [isRunning EXCEPT ![s] = FALSE]
  /\ resonanceData' = [resonanceData EXCEPT ![s] = << >>]
  /\ interval' = [interval EXCEPT ![s] = TickEffect(@, isRunning'[s])]
  /\ pendingTicks' =
       [pendingTicks EXCEPT ![s] = [i \in 1..Len(@) |-> [@[i] EXCEPT !.rebased = TRUE]]]
  /\ UNCHANGED <<currentResonance, oddDraws>>
  /\ UNCHANGED notApp

AppInit ==
  /\ sessionTime = [s \in Apps |-> 0]
  /\ isRunning = [s \in Apps |-> FALSE]
  /\ resonanceData = [s \in Apps |-> << >>]
  /\ currentResonance = [s \in Apps |-> 3200]
  /\ interval = [s \in Apps |-> FALSE]
  /\ oddDraws = 0
  /\ pendingTicks = [s \in Apps |-> << >>]

AppNext ==
  \/ \E s \in Apps : \E d \in RandomDraws(MaxOddDraws - oddDraws) :
       TickCallback(s, MaxSessionTime, d)
  \/ \E s \in Apps : AppRender(s)
  \/ \E s \in Apps : ClickStartPause(s)
  \/ \E s \in Apps : ClickReset(s)

\* resonanceData after n < KeepPoints ticks of an App whose Math.random() calls
\* all return the median: the i-th point was built when i - 1 points were held
MedianTicks(n) ==
  [ i \in 1..n |->
      DataPoint([j \in 1..(i - 1) |-> 0], NewResonance(3200, Median),
                [k \in 1..4 |-> Median]) ]

\* App 1 has been started and has ticked KeepPoints - 1 times
AppLongInit ==
  /\ sessionTime = [s \in Apps |-> IF s = 1 THEN KeepPoints - 1 ELSE 0]
  /\ isRunning = [s \in Apps |-> s = 1]
  /\ resonanceData = [s \in Apps |-> IF s = 1 THEN MedianTicks(KeepPoints - 1) ELSE << >>]
  /\ currentResonance = [s \in Apps |-> 3200]
  /\ interval = [s \in Apps |-> s = 1]
  /\ oddDraws = 0
  /\ pendingTicks = [s \in Apps |-> << >>]

\* currentResonance after n ticks whose first Math.random() call returned 0
RECURSIVE LowResonance(_)
LowResonance(n) ==
  IF n = 0 THEN 3200 ELSE NewResonance(LowResonance(n - 1), 0)

\* resonanceData after those n ticks
RECURSIVE LowTicks(_)
LowTicks(n) ==
  IF n = 0 THEN << >>
  ELSE setResonanceData(LowTicks(n - 1), LowResonance(n),
                        [i \in 1..4 |-> IF i = 1 THEN 0 ELSE Median])

\* App 1 has been started and has ticked six times, each time drawing 0 for
\* the resonance step: currentResonance went 0.32, 0.27, ..., 0.02
AppLowInit ==
  /\ sessionTime = [s \in Apps |-> IF s = 1 THEN 6 ELSE 0]
  /\ isRunning = [s \in Apps |-> s = 1]
  /\ resonanceData = [s \in Apps |-> IF s = 1 THEN LowTicks(6) ELSE << >>]
  /\ currentResonance = [s \in Apps |-> IF s = 1 THEN LowResonance(6) ELSE 3200]
  /\ interval = [s \in Apps |-> s = 1]
  /\ oddDraws = 0
  /\ pendingTicks = [s \in Apps |-> << >>]

AppLongNext ==
  \/ \E d \in RandomDraws(MaxOddDraws - oddDraws) : TickCallback(1, LongSessionTime, d)
  \/ AppRender(1)
  \/ ClickStartPause(1)

(* ----------------- service-status App: plv_update ---------------------- *)
\* prev.slice(-19)
PlvKeep == 19

\* payloads of plv_update: the usual one and a distinguishable one
PlvPayloads == {[plv |-> 5000], [plv |-> 9000]}

OddPayloads(log) == Cardinality({i \in 1..Len(log) : log[i].plv # 5000})

setPlvDataOffByOne(prev, data) == Append(SliceLast(prev, PlvKeep + 1), data)

\* setPlvData(prev => [...prev.slice(-19), data])
setPlvData(prev, data) == Append(SliceLast(prev, PlvKeep), data)

\* newSocket.on('plv_update', (data) => { setPlvData(...) })
OnPlvUpdate(data) ==
  /\ Len(plvLog) < MaxPlvUpdates
  /\ data.plv # 5000 => OddPayloads(plvLog) < MaxOddPayloads
  /\ plvData' = setPlvData(plvData, data)
  /\ plvLog' = Append(plvLog, data)
  /\ UNCHANGED notPlv

PlvInit ==
  /\ plvData = << >>
  /\ plvLog = << >>

PlvNext == \E data \in PlvPayloads : OnPlvUpdate(data)

(* ------------- useSynchronyUpdates + SynchronyMetrics ------------------ *)
\* a JavaScript value that is a number or undefined
Undefined == [defined |-> FALSE, num |-> 0]
Num(v) == [defined |-> TRUE, num |-> v]

\* x || 0
OrZero(x) == IF x.defined /\ x.num # 0 THEN x.num ELSE 0

\* notification.data.synchrony_metrics: absent, or an object whose estimator
\* fields are each a number or missing
NoMetrics == [present |-> FALSE, plv |-> Undefined, crqa_determinism |-> Undefined,
              fnirs_coherence |-> Undefined]
Metrics ==
  {NoMetrics} \cup
  [present : {TRUE}, plv : {Undefined, Num(8000)},
   crqa_determinism : {Undefined, Num(6000)},
   fnirs_coherence : {Undefined, Num(4000)}]

\* new Date(notification.timestamp); 0 is the null of useState(null)
Stamps == 1..MaxStamp

\* number of points setHistoricalData keeps: updated.slice(-50)
KeepHistory == 50

\* const newDataPoint = { timestamp: lastUpdate.getTime(), ..., plv: synchronyData.plv || 0, ... }
NewDataPoint(data, last) ==
  [ timestamp        |-> last,
    plv              |-> OrZero(data.plv),
    crqa_determinism |-> OrZero(data.crqa_determinism),
    fnirs_coherence  |-> OrZero(data.fnirs_coherence) ]

\* useEffect(() => { if (synchronyData && lastUpdate) { ... setHistoricalData(prev =>
\*   [...prev, newDataPoint].slice(-50)) } }, [synchronyData, lastUpdate])
HistoryEffect(prev, data, last) ==
  IF data.present /\ last # 0
    THEN SliceLast(Append(prev, NewDataPoint(data, last)), KeepHistory)
    ELSE prev

\* handleSynchronyUpdate(notification): setSynchronyData and setLastUpdate
\* are queued, the handler returns
handleSynchronyUpdate(metrics, timestamp) ==
  /\ updates < MaxUpdates
  /\ synchronyData' = metrics
  /\ lastUpdate' = timestamp
  /\ updates' = updates + 1
  /\ metDirty' = TRUE
  /\ UNCHANGED historicalData
  /\ UNCHANGED notMet

\* React renders with the values set last: both dependencies of the
\* SynchronyMetrics effect are new objects, the effect runs once
MetRender ==
  /\ metDirty
  /\ metDirty' = FALSE
  /\ historicalData' = HistoryEffect(historicalData, synchronyData, lastUpdate)
  /\ UNCHANGED <<synchronyData, lastUpdate, updates>>
  /\ UNCHANGED notMet

MetInit ==
  /\ synchronyData = NoMetrics
  /\ lastUpdate = 0
  /\ historicalData = << >>
  /\ updates = 0
  /\ metDirty = FALSE

MetNext ==
  \/ \E metrics \in Metrics : \E timestamp \in Stamps :
       handleSynchronyUpdate(metrics, timestamp)
  \/ MetRender

(* ------------------------- resonance_window ---------------------------- *)
\* fixed-point unit: 1.0
One == 10000

\* sum over k >= n of the Taylor terms x^k / k! of e^x, for x >= 0, where
\* term is x^n / n!
RECURSIVE ExpTerms(_, _, _)
ExpTerms(x, n, term) ==
  IF term = 0 THEN 0
  ELSE term + ExpTerms(x, n + 1, (term * x) \div ((n + 1) * One))

\* e^x for 0 <= x <= 1
Exp(x) == ExpTerms(x, 0, One)

logisticSignError(z) ==
  IF z >= 0 THEN (One * One) \div (One + Exp(z))
  ELSE (One * Exp(-z)) \div (One + Exp(-z))

\* logistic(z) = 1 / (1 + e^-z) = e^z / (1 + e^z)
logistic(z) ==
  IF z >= 0 THEN (One * Exp(z)) \div (One + Exp(z))
  ELSE (One * One) \div (One + Exp(-z))

\* the weights w1..w4 (tuned in pilot studies; the report fixes no values)
WeightSets ==
  { <<3000, 3000, 2000, 2000>>, <<2500, 2500, 2500, 2500>>, <<4000, 3000, 2000, 1000>> }

\* what the estimators compute from winA, winB, and whether each window
\* carries an fNIRS signal
WindowInputs ==
  [ plv : {2000, 8000}, r_env : {-3000, 6000}, crqa_n : {4000, 9000}, coherence : {5000, 7000},
    fnirsA : BOOLEAN, fnirsB : BOOLEAN, conf : {7000}, w : WeightSets ]

\* w1*plv + w2*r_env + w3*crqa_n + w4*fnirs
WeightedSum(w, plv, r_env, crqa_n, fnirs) ==
  (w[1] * plv + w[2] * r_env + w[3] * crqa_n + w[4] * fnirs) \div One

\* def resonance_window(winA, winB): ... return {'plv': ..., 'fnirs': fnirs, 'r': r, 'conf': conf}
resonance_window(win) ==
  LET fnirs == IF win.fnirsA /\ win.fnirsB THEN win.coherence ELSE 0
      r == logistic(WeightedSum(win.w, win.plv, win.r_env, win.crqa_n, fnirs))
  IN  [ plv |-> Num(win.plv), r_env |-> Num(win.r_env), crqa |-> Num(win.crqa_n),
        fnirs |-> Num(fnirs), r |-> r, conf |-> win.conf ]

\* one call of resonance_window on the windows at hand
CallResonanceWindow ==
  /\ resonance = << >>
  /\ resonance' = <<resonance_window(windows)>>
  /\ UNCHANGED windows
  /\ UNCHANGED notFus

FusInit ==
  /\ windows = [ plv |-> 8000, r_env |-> 6000, crqa_n |-> 4000, coherence |-> 5000,
                 fnirsA |-> TRUE, fnirsB |-> TRUE, conf |-> 7000,
                 w |-> <<3000, 3000, 2000, 2000>> ]
  /\ resonance = << >>

\* any pair of windows
FusAnyInit ==
  /\ windows \in WindowInputs
  /\ resonance = << >>

FusNext == CallResonanceWindow

(* ---------------------- Synchrony Orchestrator -------------------------- *)
\* the four estimators of a tick
Estimators == {"plv", "r_env", "crqa", "fnirs"}

NoOutcome == [tick |-> 0, kind |-> "none", valid |-> {}]

\* a weight as supplied by the caller: a finite number, or NaN / Infinity
Finite(v) == [finite |-> TRUE, num |-> v]
NonFinite == [finite |-> FALSE, num |-> 0]

\* the channel each estimator reads
ChannelOf(e) ==
  CASE e = "plv" -> "phase" [] e = "r_env" -> "env"
    [] e = "crqa" -> "pause_seq" [] OTHER -> "fnirs"

RequiredChannels == {ChannelOf(e) : e \in Estimators}

NoConfig ==
  [ window_len |-> 0, tick_interval |-> 0, crqa |-> <<0, 0, 0>>, bands |-> <<0, 0>>,
    weights |-> << >>, min_valid |-> 0, channels |-> {} ]

DefaultConfig ==
  [ window_len |-> 200, tick_interval |-> 250, crqa |-> <<3, 1, 1000>>, bands |-> <<1, 4>>,
    weights |-> <<Finite(3000), Finite(3000), Finite(2000), Finite(2000)>>,
    min_valid |-> 1, channels |-> RequiredChannels ]

\* the configurations callers ask for: two well-formed ones, and one for each
\* way of being malformed
ConfigInputs ==
  { DefaultConfig,
    [DefaultConfig EXCEPT !.window_len = 100, !.tick_interval = 1000,
       !.weights = <<Finite(2500), Finite(2500), Finite(2500), Finite(2500)>>],
    [DefaultConfig EXCEPT !.weights = <<Finite(6000), Finite(-1000), Finite(3000), Finite(2000)>>],
    [DefaultConfig EXCEPT !.weights = <<Finite(3000), Finite(3000), Finite(2000), NonFinite>>],
    [DefaultConfig EXCEPT !.channels = RequiredChannels \ {"fnirs"}],
    [DefaultConfig EXCEPT !.channels = RequiredChannels \cup {"eeg"}] }

\* records the local buffer holds while the sink does not take them
OutboxCapacity == 2

EnqueueDropNewest(box, rec) ==
  IF Len(box) < OutboxCapacity THEN Append(box, rec) ELSE box

\* local buffering with drop-oldest on backpressure
Enqueue(box, rec) == SliceLast(Append(box, rec), OutboxCapacity)

\* IDLE -> ACTIVE
StartOrch ==
  /\ orchState = "IDLE"
  /\ orchState' = "ACTIVE"
  /\ UNCHANGED <<tickNo, inFlight, est, elapsed, lastOutcome, emitted, skipped>>
  /\ UNCHANGED notOrch

\* ACTIVE -> PAUSED, taken between two ticks
PauseOrch ==
  /\ orchState = "ACTIVE"
  /\ ~ inFlight
  /\ orchState' = "PAUSED"
  /\ UNCHANGED <<tickNo, inFlight, est, elapsed, lastOutcome, emitted, skipped>>
  /\ UNCHANGED notOrch

ResumeOrchReloadsConfig ==
  /\ orchState = "PAUSED"
  /\ orchState' = "ACTIVE"
  /\ config' = DefaultConfig
  /\ UNCHANGED <<tickNo, inFlight, est, elapsed, lastOutcome, emitted, skipped>>
  /\ UNCHANGED <<lastRequest, createError>>
  /\ UNCHANGED notCfg

\* PAUSED -> ACTIVE
ResumeOrch ==
  /\ orchState = "PAUSED"
  /\ orchState' = "ACTIVE"
  /\ UNCHANGED <<tickNo, inFlight, est, elapsed, lastOutcome, emitted, skipped>>
  /\ UNCHANGED notOrch

\* -> CLOSED: cancels the tick in flight and discards its partial results
CloseOrch ==
  /\ orchState \in {"ACTIVE", "PAUSED"}
  /\ orchState' = "CLOSED"
  /\ inFlight' = FALSE
  /\ est' = [e \in Estimators |-> "idle"]
  /\ UNCHANGED <<tickNo, elapsed, lastOutcome, emitted, skipped>>
  /\ UNCHANGED notOrch

\* a tick starts: the four estimators are spawned
TickStart ==
  /\ orchState = "ACTIVE"
  /\ ~ inFlight
  /\ tickNo < MaxTicks
  /\ tickNo' = tickNo + 1
  /\ inFlight' = TRUE
  /\ est' = [e \in Estimators |-> "running"]
  /\ elapsed' = 0
  /\ UNCHANGED <<orchState, lastOutcome, emitted, skipped>>
  /\ UNCHANGED notOrch

\* estimator e returns within its budget, with a valid or an invalid result
EstimatorReturns(e, valid) ==
  /\ inFlight
  /\ est[e] = "running"
  /\ elapsed < TickBudget
  /\ est' = [est EXCEPT ![e] = IF valid THEN "valid" ELSE "invalid"]
  /\ UNCHANGED <<orchState, tickNo, inFlight, elapsed, lastOutcome, emitted, skipped>>
  /\ UNCHANGED notOrch

\* wall-clock time passes during a tick
TimePasses ==
  /\ inFlight
  /\ elapsed < TickBudget
  /\ elapsed' = elapsed + 1
  /\ UNCHANGED <<orchState, tickNo, inFlight, est, lastOutcome, emitted, skipped>>
  /\ UNCHANGED notOrch

EstimatorNeverTimesOut(e) ==
  /\ FALSE
  /\ UNCHANGED vars

\* estimator e has used up its budget: it is invalid for this tick
EstimatorTimeout(e) ==
  /\ inFlight
  /\ est[e] = "running"
  /\ elapsed = TickBudget
  /\ est' = [est EXCEPT ![e] = "timedout"]
  /\ UNCHANGED <<orchState, tickNo, inFlight, elapsed, lastOutcome, emitted, skipped>>
  /\ UNCHANGED notOrch

\* the join: every estimator has returned or timed out; fuse the valid ones
\* and emit, or skip the tick when none is valid
Fuse ==
  /\ inFlight
  /\ \A e \in Estimators : est[e] # "running"
  /\ LET valid == {e \in Estimators : est[e] = "valid"} IN
       IF valid # {}
         THEN /\ lastOutcome' = [tick |-> tickNo, kind |-> "emitted", valid |-> valid]
              /\ emitted' = emitted + 1
              /\ resonanceSeq' = Append(resonanceSeq, tickNo)
              /\ outbox' = Enqueue(outbox, tickNo)
              /\ UNCHANGED skipped
         ELSE /\ lastOutcome' = [tick |-> tickNo, kind |-> "skipped", valid |-> {}]
              /\ skipped' = skipped + 1
              /\ UNCHANGED <<emitted, resonanceSeq, outbox>>
  /\ inFlight' = FALSE
  /\ UNCHANGED <<orchState, tickNo, est, elapsed>>
  /\ UNCHANGED <<sinkUp, delivered>>
  /\ UNCHANGED notSink

OrchInit ==
  /\ orchState = "IDLE"
  /\ tickNo = 0
  /\ inFlight = FALSE
  /\ est = [e \in Estimators |-> "idle"]
  /\ elapsed = 0
  /\ lastOutcome = NoOutcome
  /\ emitted = 0
  /\ skipped = 0

\* the sink starts failing (storage down)
SinkFails ==
  /\ sinkUp
  /\ sinkUp' = FALSE
  /\ UNCHANGED <<outbox, resonanceSeq, delivered>>
  /\ UNCHANGED orchVars
  /\ UNCHANGED notSink

\* the sink is back
SinkRecovers ==
  /\ ~ sinkUp
  /\ sinkUp' = TRUE
  /\ UNCHANGED <<outbox, resonanceSeq, delivered>>
  /\ UNCHANGED orchVars
  /\ UNCHANGED notSink

\* the sink takes the oldest buffered record, whenever it gets to it
Deliver ==
  /\ sinkUp
  /\ outbox # << >>
  /\ delivered' = delivered \cup {Head(outbox)}
  /\ outbox' = Tail(outbox)
  /\ UNCHANGED <<sinkUp, resonanceSeq>>
  /\ UNCHANGED orchVars
  /\ UNCHANGED notSink

SinkInit ==
  /\ sinkUp = TRUE
  /\ outbox = << >>
  /\ resonanceSeq = << >>
  /\ delivered = {}

SinkNext ==
  \/ SinkFails
  \/ SinkRecovers
  \/ Deliver

OrchNext ==
  \/ StartOrch
  \/ PauseOrch
  \/ ResumeOrch
  \/ CloseOrch
  \/ TickStart
  \/ \E e \in Estimators : \E valid \in BOOLEAN : EstimatorReturns(e, valid)
  \/ TimePasses
  \/ \E e \in Estimators : EstimatorTimeout(e)
  \/ Fuse

\* the clock advances, timeouts fire and the join runs; an estimator need
\* never return
OrchFairness ==
  /\ WF_vars(TimePasses)
  /\ \A e \in Estimators : WF_vars(EstimatorTimeout(e))
  /\ WF_vars(Fuse)

(* ------------------------- session creation ---------------------------- *)
ValidConfigIgnoresNonFinite(cfg) ==
  /\ Len(cfg.weights) = Cardinality(Estimators)
  /\ \A i \in 1..Len(cfg.weights) : cfg.weights[i].num >= 0
  /\ cfg.channels = RequiredChannels

\* the validation at session creation
ValidConfig(cfg) ==
  /\ Len(cfg.weights) = Cardinality(Estimators)
  /\ \A i \in 1..Len(cfg.weights) : cfg.weights[i].finite /\ cfg.weights[i].num >= 0
  /\ cfg.channels = RequiredChannels

\* create a session: rejected with ConfigurationError before anything starts,
\* or the session exists, IDLE, with the configuration supplied
CreateSession(cfg) ==
  /\ orchState = "NONE"
  /\ lastRequest' = cfg
  /\ IF ValidConfig(cfg)
       THEN /\ orchState' = "IDLE"
            /\ config' = cfg
            /\ createError' = "none"
       ELSE /\ createError' = "ConfigurationError"
            /\ UNCHANGED <<orchState, config>>
  /\ UNCHANGED <<tickNo, inFlight, est, elapsed, lastOutcome, emitted, skipped>>
  /\ UNCHANGED notCfg

\* a session created with the default configuration
CfgInit ==
  /\ config = DefaultConfig
  /\ lastRequest = DefaultConfig
  /\ createError = "none"

\* no session yet
CfgNoneInit ==
  /\ config = NoConfig
  /\ lastRequest = NoConfig
  /\ createError = "none"

OrchNoneInit ==
  /\ orchState = "NONE"
  /\ tickNo = 0
  /\ inFlight = FALSE
  /\ est = [e \in Estimators |-> "idle"]
  /\ elapsed = 0
  /\ lastOutcome = NoOutcome
  /\ emitted = 0
  /\ skipped = 0

SessionNext ==
  \/ \E cfg \in ConfigInputs : CreateSession(cfg)
  \/ OrchNext

(* ---------------------------- Stream Buffer ---------------------------- *)
\* samples the buffer of a channel holds
BufCapacity == 3

\* a Sample of the channel: (t_unix_ms, value)
Samples == [t : 1..MaxSampleT, value : {100, 200}]

\* timestamp of the last accepted sample, 0 for the empty buffer
LastStamp(buf) == IF buf = << >> THEN 0 ELSE buf[Len(buf)].t

\* push(channel_id, sample): out-of-order and duplicate samples are rejected,
\* capacity is enforced by evicting the oldest
push(sample) ==
  /\ sbuf' = IF sample.t <= LastStamp(sbuf) THEN sbuf
             ELSE SliceLast(Append(sbuf, sample), BufCapacity)
  /\ UNCHANGED <<reading, readRange, snapshot, consumed, bufAtRead>>
  /\ UNCHANGED notBuf

InRangeInclusive(buf, t0, t1) ==
  LET in(s) == t0 <= s.t /\ s.t <= t1 IN SelectSeq(buf, in)

\* the Samples of buf in [t0, t1)
InRange(buf, t0, t1) ==
  LET in(s) == t0 <= s.t /\ s.t < t1 IN SelectSeq(buf, in)

\* read(channel_id, t0, t1): the reader takes its copy of the range
read(t0, t1) ==
  /\ ~ reading
  /\ reading' = TRUE
  /\ readRange' = <<t0, t1>>
  /\ snapshot' = InRange(sbuf, t0, t1)
  /\ consumed' = << >>
  /\ bufAtRead' = sbuf
  /\ UNCHANGED sbuf
  /\ UNCHANGED notBuf

\* the reader consumes the next Sample of its result
ReaderNext ==
  /\ reading
  /\ Len(consumed) < Len(snapshot)
  /\ consumed' = Append(consumed, snapshot[Len(consumed) + 1])
  /\ UNCHANGED <<sbuf, reading, readRange, snapshot, bufAtRead>>
  /\ UNCHANGED notBuf

\* the reader has reached the end of its result
ReaderDone ==
  /\ reading
  /\ Len(consumed) = Len(snapshot)
  /\ reading' = FALSE
  /\ UNCHANGED <<sbuf, readRange, snapshot, consumed, bufAtRead>>
  /\ UNCHANGED notBuf

BufInit ==
  /\ sbuf = << >>
  /\ reading = FALSE
  /\ readRange = <<0, 0>>
  /\ snapshot = << >>
  /\ consumed = << >>
  /\ bufAtRead = << >>

BufNext ==
  \/ \E sample \in Samples : push(sample)
  \/ \E t0 \in 0..MaxSampleT : \E t1 \in (t0 + 1)..(MaxSampleT + 1) : read(t0, t1)
  \/ ReaderNext
  \/ ReaderDone

\* the reader runs on its own; ingestion may go on for ever
BufFairness == WF_vars(ReaderNext) /\ WF_vars(ReaderDone)

(* --------------------------- Window Extractor -------------------------- *)
\* the uniform time grid of the window
Grid == 1..WinLen

\* longest gap, in slots, that linear interpolation may fill
MaxGapSlots == 2

\* max_gap_fraction, in units of 1/10000
MaxGapFraction == 3400

\* the nearest slot with a sample below k (0 when none) and above k
\* (WinLen + 1 when none)
Below(slots, k) == IF \E j \in slots : j < k
                     THEN CHOOSE j \in slots : j < k /\ \A i \in slots : i < k => i <= j
                     ELSE 0
Above(slots, k) == IF \E j \in slots : j > k
                     THEN CHOOSE j \in slots : j > k /\ \A i \in slots : i > k => i >= j
                     ELSE WinLen + 1

\* the empty slots linear interpolation fills: those between two samples that
\* are at most MaxGapSlots empty slots apart
Interpolated(slots) ==
  { k \in Grid \ slots :
      /\ Below(slots, k) >= 1
      /\ Above(slots, k) <= WinLen
      /\ Above(slots, k) - Below(slots, k) - 1 <= MaxGapSlots }

\* the samples supplied cover at least (1 - max_gap_fraction) of the window
CoverageOk(slots) == Cardinality(slots) * One >= (One - MaxGapFraction) * WinLen

WindowValidFirstOnly(a, b) ==
  /\ CoverageOk(a)
  /\ a \cup Interpolated(a) = Grid
  /\ b \cup Interpolated(b) = Grid

\* the window is valid when both participants cover enough of it and no slot
\* of the grid is left empty after interpolation
WindowValid(a, b) ==
  /\ CoverageOk(a) /\ CoverageOk(b)
  /\ a \cup Interpolated(a) = Grid
  /\ b \cup Interpolated(b) = Grid

\* extract(session, t_center, window_len) -> AnalysisWindow
extract(a, b) ==
  [ valid |-> WindowValid(a, b), filledA |-> Interpolated(a), filledB |-> Interpolated(b) ]

Extract ==
  /\ extracted = << >>
  /\ extracted' = <<extract(slotsA, slotsB)>>
  /\ UNCHANGED <<slotsA, slotsB>>
  /\ UNCHANGED notWin

\* both participants supplied every sample of the window
WinInit ==
  /\ slotsA = Grid
  /\ slotsB = Grid
  /\ extracted = << >>

\* any samples in the window
WinAnyInit ==
  /\ slotsA \in SUBSET Grid
  /\ slotsB \in SUBSET Grid
  /\ extracted = << >>

WinNext == Extract

(* ---------------------- Fusion & Confidence Engine ---------------------- *)
\* EstimatorResult {name, value, valid, snr}; the name is the index
EstimatorResults == [valid : BOOLEAN, value : {2000, 8000}, snr : {3000, 10000}]

\* confidence a single channel can claim at most, exclusive
ConfCeiling == 6000

\* the estimators whose result is valid
ValidOf(res) == {e \in Estimators : res[e].valid}

\* smallest and largest of the values and SNRs of the estimators in S
MinValue(res, S) == CHOOSE v \in {res[e].value : e \in S} : \A e \in S : v <= res[e].value
MaxValue(res, S) == CHOOSE v \in {res[e].value : e \in S} : \A e \in S : v >= res[e].value
MinSnr(res, S) == CHOOSE v \in {res[e].snr : e \in S} : \A e \in S : v <= res[e].snr

\* agreement of the valid outputs, 1 when they coincide, and the SNR of the
\* weakest valid channel, multiplied
RawConfidence(res, S) ==
  ((One - (MaxValue(res, S) - MinValue(res, S))) * MinSnr(res, S)) \div One

confidenceUncapped(res) == RawConfidence(res, ValidOf(res))

\* confidence of a tick with at least one valid estimator; a single valid
\* estimator is capped below the ceiling
confidence(res) ==
  LET S == ValidOf(res)
      raw == RawConfidence(res, S)
  IN  IF Cardinality(S) = 1 THEN Min(raw, ConfCeiling - 1) ELSE raw

\* fuse(results, weights): a record with its confidence, or the explicit skip
\* when no estimator is valid
fuse(res) ==
  IF ValidOf(res) = {}
    THEN [kind |-> "skipped", valid |-> {}, conf |-> 0]
    ELSE [kind |-> "emitted", valid |-> ValidOf(res), conf |-> confidence(res)]

CallFuse ==
  /\ fused = << >>
  /\ fused' = <<fuse(results)>>
  /\ UNCHANGED results
  /\ UNCHANGED notConf

\* four valid, agreeing, clean results
ConfInit ==
  /\ results = [e \in Estimators |-> [valid |-> TRUE, value |-> 8000, snr |-> 10000]]
  /\ fused = << >>

\* any four results
ConfAnyInit ==
  /\ results \in [Estimators -> EstimatorResults]
  /\ fused = << >>

ConfNext == CallFuse

(* ------------------ useWebSocket and NotificationPanel ------------------ *)
\* const maxNotifications = 100
maxNotifications == 100

\* notification.topic; "system" is the usual one
Topics == {"system", "synchrony_updates"}

\* the values of the filter tabs
Filters == {"all", "system", "synchrony", "biofeedback", "twin", "stream"}

\* topics the panel may be shown: those of the common subscriptions and one
\* more topic of the system family
PanelTopics ==
  Topics \cup {"biofeedback_updates", "twin_updates", "stream_updates", "system_alerts"}

\* the words a topic is made of
TopicWords(topic) ==
  CASE topic = "system" -> {"system"}
    [] topic = "synchrony_updates" -> {"synchrony", "updates"}
    [] topic = "biofeedback_updates" -> {"biofeedback", "updates"}
    [] topic = "twin_updates" -> {"twin", "updates"}
    [] topic = "stream_updates" -> {"stream", "updates"}
    [] topic = "system_alerts" -> {"system", "alerts"}

\* topics a further notification may carry, given those received so far
TopicsLeft(log) ==
  IF Cardinality({i \in 1..Len(log) : log[i].topic # "system"}) < MaxOddTopics
    THEN Topics ELSE {"system"}

\* the same for the panel's topics
PanelTopicsLeft(log) ==
  IF Cardinality({i \in 1..Len(log) : log[i].topic # "system"}) < MaxOddTopics
    THEN PanelTopics ELSE {"system"}

\* notification.topic.includes(f), for the topics and filters at hand
TopicIncludes(topic, f) ==
  \/ topic = f
  \/ f \in TopicWords(topic)

setNotificationsKeepLast(prev, notification) ==
  SliceLast(<<notification>> \o prev, maxNotifications)

\* setNotifications(prev => [notification, ...prev].slice(0, maxNotifications))
setNotifications(prev, notification) ==
  SliceFirst(<<notification>> \o prev, maxNotifications)

\* handleNotification(notification), called by the client's event: the
\* update is queued; the id is the arrival number
handleNotification(limit, topic) ==
  /\ Len(notifLog) < limit
  /\ unrendered < MaxUnrendered
  /\ unrendered' = unrendered + 1
  /\ LET notification == [id |-> Len(notifLog) + 1, topic |-> topic] IN
       /\ notifications' = setNotifications(notifications, notification)
       /\ notifLog' = Append(notifLog, notification)
  /\ UNCHANGED <<renderedNotifications, filter, showRead, readNotifications>>
  /\ UNCHANGED notNotif

\* React renders the hook's component and the panel with the queued updates
NotifRender ==
  /\ renderedNotifications # notifications \/ unrendered > 0
  /\ renderedNotifications' = notifications
  /\ unrendered' = 0
  /\ UNCHANGED <<notifications, notifLog, filter, showRead, readNotifications>>
  /\ UNCHANGED notNotif

\* clearNotifications(): setNotifications([]). Called in a discrete event
\* (a click) the update is rendered at the end of the event, without the
\* updates that notification events have queued
clearNotifications(discrete) ==
  /\ notifications' = << >>
  /\ renderedNotifications' = IF discrete THEN << >> ELSE renderedNotifications
  /\ UNCHANGED <<unrendered, notifLog, filter, showRead, readNotifications>>
  /\ UNCHANGED notNotif

\* prev.filter(n => n.id !== notificationId)
WithoutNotification(prev, notificationId) ==
  LET keep(n) == n.id # notificationId IN SelectSeq(prev, keep)

\* removeNotification(notificationId) for a notification of the last render
removeNotification(notificationId, discrete) ==
  /\ notifications' = WithoutNotification(notifications, notificationId)
  /\ renderedNotifications' =
       IF discrete THEN WithoutNotification(renderedNotifications, notificationId)
       ELSE renderedNotifications
  /\ UNCHANGED <<unrendered, notifLog, filter, showRead, readNotifications>>
  /\ UNCHANGED notNotif

\* notifications.filter(by topic).filter(by read state)
FilteredNotifications(notifs, f, show, readIds) ==
  LET byTopic(n) == f = "all" \/ n.topic = f \/ TopicIncludes(n.topic, f)
      byRead(n) == ~ (~ show /\ n.id \in readIds)
  IN  SelectSeq(SelectSeq(notifs, byTopic), byRead)

\* const notificationCounts = { all: ..., system: ..., synchrony: ..., ... }
notificationCounts(notifs) ==
  LET count(test(_)) == Cardinality({i \in 1..Len(notifs) : test(notifs[i])})
      all(n) == TRUE
      system(n) == n.topic = "system"
      synchrony(n) == TopicIncludes(n.topic, "synchrony")
      biofeedback(n) == TopicIncludes(n.topic, "biofeedback")
      twin(n) == TopicIncludes(n.topic, "twin")
      stream(n) == TopicIncludes(n.topic, "stream")
  IN [all |-> Len(notifs), system |-> count(system), synchrony |-> count(synchrony),
      biofeedback |-> count(biofeedback), twin |-> count(twin), stream |-> count(stream)]

\* notifications.filter(n => !readNotifications.has(n.id)).length
UnreadCount(notifs, readIds) ==
  Cardinality({i \in 1..Len(notifs) : notifs[i].id \notin readIds})

\* filteredNotifications of the last render (the panel's own state is set
\* only in clicks, whose updates are rendered at the end of the click)
DisplayedNotifications ==
  FilteredNotifications(renderedNotifications, filter, showRead, readNotifications)

\* onClick of a displayed notification: markAsRead(notification.id)
markAsRead(notificationId) ==
  /\ \E i \in 1..Len(DisplayedNotifications) : DisplayedNotifications[i].id = notificationId
  /\ readNotifications' = readNotifications \cup {notificationId}
  /\ UNCHANGED <<notifications, renderedNotifications, unrendered, notifLog, filter, showRead>>
  /\ UNCHANGED notNotif

\* Mark All Read button (disabled while the unreadCount of the last render
\* is 0): the ids are those of the notifications of the last render
markAllAsRead ==
  /\ UnreadCount(renderedNotifications, readNotifications) # 0
  /\ readNotifications' =
       {renderedNotifications[i].id : i \in 1..Len(renderedNotifications)}
  /\ UNCHANGED <<notifications, renderedNotifications, unrendered, notifLog, filter, showRead>>
  /\ UNCHANGED notNotif

\* Clear All button: const clearAll = () => { setReadNotifications(new Set()) }
clearAll ==
  /\ readNotifications' = {}
  /\ UNCHANGED <<notifications, renderedNotifications, unrendered, notifLog, filter, showRead>>
  /\ UNCHANGED notNotif

\* <Tabs value={filter} onValueChange={setFilter}>
setFilter(f) ==
  /\ filter' = f
  /\ UNCHANGED <<notifications, renderedNotifications, unrendered, notifLog, showRead, readNotifications>>
  /\ UNCHANGED notNotif

\* onClick={() => setShowRead(!showRead)}
ToggleShowRead ==
  /\ showRead' = ~ showRead
  /\ UNCHANGED <<notifications, renderedNotifications, unrendered, notifLog, filter, readNotifications>>
  /\ UNCHANGED notNotif

NotifInit ==
  /\ notifications = << >>
  /\ renderedNotifications = << >>
  /\ unrendered = 0
  /\ notifLog = << >>
  /\ filter = "all"
  /\ showRead = TRUE
  /\ readNotifications = {}

\* the hook as the Dashboard uses it: notification events only
NotifNext ==
  \/ \E topic \in TopicsLeft(notifLog) : handleNotification(MaxNotifEvents, topic)
  \/ NotifRender

\* the hook and the panel
PanelNext ==
  \/ \E topic \in PanelTopicsLeft(notifLog) : handleNotification(MaxPanelEvents, topic)
  \/ NotifRender
  \/ \E discrete \in BOOLEAN : clearNotifications(discrete)
  \/ \E i \in 1..Len(renderedNotifications), discrete \in BOOLEAN :
       removeNotification(renderedNotifications[i].id, discrete)
  \/ \E id \in 1..MaxPanelEvents : markAsRead(id)
  \/ markAllAsRead
  \/ clearAll
  \/ \E f \in Filters : setFilter(f)
  \/ ToggleShowRead

(* --------------------------- ServiceStatus ----------------------------- *)
Services == {"Digital Twin", "Notification"}
Statuses == {"healthy", "unhealthy"}
\* updated[service.name].slice(-20)
HealthKeep == 20
\* runs of the health effect in SpecStatus
MaxHealthChecks == 22
\* health results that are unhealthy or miss a service
MaxOddHealth == 1

\* { timestamp, status: service.status }
HealthEntry(timestamp, service) == [timestamp |-> timestamp, status |-> service.status]

\* the body of servicesHealth.forEach for one service: a missing key starts
\* as [], the entry is pushed, the last 20 are kept
PushHealth(updated, service, timestamp) ==
  [updated EXCEPT ![service.name] =
     SliceLast(Append(@, HealthEntry(timestamp, service)), HealthKeep)]

RECURSIVE ForEachService(_, _, _)
ForEachService(updated, servicesHealth, timestamp) ==
  IF servicesHealth = << >> THEN updated
  ELSE ForEachService(PushHealth(updated, Head(servicesHealth), timestamp),
                      Tail(servicesHealth), timestamp)

\* the queued updaters applied in order, each to the result of the one before
RECURSIVE ApplyUpdaters(_, _)
ApplyUpdaters(prev, queue) ==
  IF queue = << >> THEN prev
  ELSE ApplyUpdaters(ForEachService(prev, Head(queue).servicesHealth, Head(queue).timestamp),
                     Tail(queue))

\* the entries the queued updaters push for service s, in order
QueuedEntries(queue, s) ==
  LET RECURSIVE entries(_)
      entries(q) ==
        IF q = << >> THEN << >>
        ELSE LET all == SelectSeq(Head(q).servicesHealth, LAMBDA service : service.name = s)
             IN [i \in 1..Len(all) |-> HealthEntry(Head(q).timestamp, all[i])]
                  \o entries(Tail(q))
  IN entries(queue)

\* prev after one pass over the queue: updated = { ...prev } shares its arrays
\* with prev, so the first push for a service whose key exists lands on
\* prev's own array (later pushes go to the copy made by slice)
MutatedPrev(prev, queue) ==
  [s \in Services |->
     IF prev[s] # << >> /\ QueuedEntries(queue, s) # << >>
       THEN Append(prev[s], QueuedEntries(queue, s)[1])
       ELSE prev[s]]

\* the render that processes the setHealthHistory updaters: React runs the
\* queue once, or twice from the same prev under StrictMode, and keeps the
\* result of the last pass
setHealthHistory(prev, queue, strict) ==
  IF strict THEN ApplyUpdaters(MutatedPrev(prev, queue), queue)
  ELSE ApplyUpdaters(prev, queue)

\* the servicesHealth prop: the results for all services, for the first one
\* only, or none
HealthResults ==
  {<< >>}
  \cup {<<[name |-> "Digital Twin", status |-> s]>> : s \in Statuses}
  \cup {<<[name |-> "Digital Twin", status |-> s[1]], [name |-> "Notification", status |-> s[2]]>> :
          s \in Statuses \X Statuses}

HealthyCount(history) ==
  Cardinality({i \in 1..Len(history) : history[i].status = "healthy"})

\* results so far that were not a healthy one: unhealthy, or missing from
\* the servicesHealth of an effect run
OddHealth(log, checks) ==
  LET n(s) == checks - HealthyCount(log[s])
  IN n("Digital Twin") + n("Notification")

\* calculateUptime, in units of 1/One percent
calculateUptime(history) ==
  IF Len(history) = 0 THEN 0
  ELSE (HealthyCount(history) * 100 * One) \div Len(history)

\* the runs of the effect after one commit, each with its own new Date():
\* one, or two (mount, cleanup, mount) when the component mounts under
\* StrictMode
EffectRuns(timestamp, strict, mounting) ==
  IF strict /\ mounting THEN <<timestamp, timestamp + 1>> ELSE <<timestamp>>

\* useEffect(..., [servicesHealth]) at mount and on a new servicesHealth
\* prop: setLastCheck and the updater are queued
HealthEffect(servicesHealth) ==
  /\ healthQueue = << >>
  /\ lastCheck < MaxHealthChecks
  /\ Len(servicesHealth) > 0 \/ statMounting
  /\ statMounting' = FALSE
  /\ IF Len(servicesHealth) > 0
       THEN LET runs == EffectRuns(lastCheck + 1, strictMode, statMounting)
                queued == [i \in 1..Len(runs) |->
                             [servicesHealth |-> servicesHealth, timestamp |-> runs[i]]]
                logged == [s \in Services |-> healthLog[s] \o QueuedEntries(queued, s)]
            IN /\ OddHealth(logged, runs[Len(runs)]) <= MaxOddHealth
               /\ lastCheck' = runs[Len(runs)]
               /\ healthQueue' = queued
               /\ healthLog' = logged
       ELSE UNCHANGED <<lastCheck, healthQueue, healthLog>>
  /\ UNCHANGED <<healthHistory, strictMode>>
  /\ UNCHANGED notStat

\* React renders ServiceStatus: the queued updaters give the new healthHistory
StatRender ==
  /\ healthQueue # << >>
  /\ healthHistory' = setHealthHistory(healthHistory, healthQueue, strictMode)
  /\ healthQueue' = << >>
  /\ UNCHANGED <<lastCheck, healthLog, strictMode, statMounting>>
  /\ UNCHANGED notStat

\* before the effects of the mount, in a production build
StatInit ==
  /\ healthHistory = [s \in Services |-> << >>]
  /\ lastCheck = 0
  /\ healthLog = [s \in Services |-> << >>]
  /\ strictMode = FALSE
  /\ healthQueue = << >>
  /\ statMounting = TRUE

\* a production build, or a development build under StrictMode
StatAnyInit ==
  /\ healthHistory = [s \in Services |-> << >>]
  /\ lastCheck = 0
  /\ healthLog = [s \in Services |-> << >>]
  /\ strictMode \in BOOLEAN
  /\ healthQueue = << >>
  /\ statMounting = TRUE

StatNext ==
  \/ \E servicesHealth \in HealthResults : HealthEffect(servicesHealth)
  \/ StatRender

(* --------------------------- useWebSocket connection ------------------- *)
\* useWebSocket(true) in the Dashboard
autoConnect == TRUE
\* mounts, client events and calls of the hook's API in SpecWs
MaxWsEvents == 6
WsSessionIds == {1, 2}
DisconnectReasons == {"io client disconnect", "transport close"}
WsErrors == {"timeout"}

\* socket after webSocketClient.disconnect(): an open or connecting socket
\* is being closed by the client
AfterDisconnect(s) == IF s \in {"open", "connecting"} THEN "closing" ELSE s

\* socket after webSocketClient.connect()
AfterConnect(s) == IF s = "closed" THEN "connecting" ELSE s

\* the auto-connect effect, deps [autoConnect, isConnected]: when isConnected
\* differs from that of the previous render, the previous run's cleanup and
\* then the body run
AutoConnectEffect(wasConnected, nowConnected, s) ==
  LET changed == wasConnected # nowConnected
      cleaned == IF changed /\ autoConnect THEN AfterDisconnect(s) ELSE s
      body == changed /\ autoConnect /\ ~ nowConnected
  IN /\ disconnectCalls' = disconnectCalls + (IF changed /\ autoConnect THEN 1 ELSE 0)
     /\ connectCalls' = connectCalls + (IF body THEN 1 ELSE 0)
     /\ socket' = IF body THEN AfterConnect(cleaned) ELSE cleaned

\* first render and effects of a component using the hook
WsMount ==
  /\ ~ mounted
  /\ wsEvents < MaxWsEvents
  /\ wsEvents' = wsEvents + 1
  /\ mounted' = TRUE
  /\ isConnected' = FALSE
  /\ renderedConnected' = FALSE
  /\ wsSessionId' = 0
  /\ connectionError' = "null"
  /\ connectCalls' = connectCalls + (IF autoConnect THEN 1 ELSE 0)
  /\ socket' = IF autoConnect THEN AfterConnect(socket) ELSE socket
  /\ UNCHANGED disconnectCalls
  /\ UNCHANGED notWs

\* the client emits ws_connected: handleConnectionStatus queues its updates
OnWsConnected(sessionId) ==
  /\ mounted
  /\ socket = "connecting"
  /\ wsEvents < MaxWsEvents
  /\ wsEvents' = wsEvents + 1
  /\ socket' = "open"
  /\ isConnected' = TRUE
  /\ wsSessionId' = sessionId
  /\ connectionError' = "null"
  /\ UNCHANGED <<mounted, renderedConnected, connectCalls, disconnectCalls>>
  /\ UNCHANGED notWs

\* `Disconnected: ${data.reason}`
DisconnectedMessage(reason) == "Disconnected: " \o reason

\* the client emits ws_disconnected: handleDisconnection queues its updates
OnWsDisconnected(reason) ==
  /\ mounted
  /\ \/ socket = "closing" /\ reason = "io client disconnect"
     \/ socket = "open" /\ reason # "io client disconnect"
  /\ wsEvents < MaxWsEvents
  /\ wsEvents' = wsEvents + 1
  /\ socket' = "closed"
  /\ isConnected' = FALSE
  /\ wsSessionId' = 0
  /\ connectionError' =
       IF reason # "io client disconnect" THEN DisconnectedMessage(reason)
       ELSE connectionError
  /\ UNCHANGED <<mounted, renderedConnected, connectCalls, disconnectCalls>>
  /\ UNCHANGED notWs

\* the client emits ws_error: setConnectionError(data.error)
handleError(error) ==
  /\ mounted
  /\ wsEvents < MaxWsEvents
  /\ wsEvents' = wsEvents + 1
  /\ connectionError' = error
  /\ UNCHANGED <<mounted, isConnected, renderedConnected, wsSessionId, socket, connectCalls,
                 disconnectCalls>>
  /\ UNCHANGED notWs

\* connect(url) of the hook's API: webSocketClient.connect(url)
connect ==
  /\ mounted
  /\ wsEvents < MaxWsEvents
  /\ wsEvents' = wsEvents + 1
  /\ connectCalls' = connectCalls + 1
  /\ socket' = AfterConnect(socket)
  /\ UNCHANGED <<mounted, isConnected, renderedConnected, wsSessionId, connectionError,
                 disconnectCalls>>
  /\ UNCHANGED notWs

\* disconnect() of the hook's API: webSocketClient.disconnect(), then
\* setIsConnected(false), setSessionId(null), setConnectionError(null)
disconnect ==
  /\ mounted
  /\ wsEvents < MaxWsEvents
  /\ wsEvents' = wsEvents + 1
  /\ disconnectCalls' = disconnectCalls + 1
  /\ socket' = AfterDisconnect(socket)
  /\ isConnected' = FALSE
  /\ wsSessionId' = 0
  /\ connectionError' = "null"
  /\ UNCHANGED <<mounted, renderedConnected, connectCalls>>
  /\ UNCHANGED notWs

\* React renders with an isConnected other than that of the previous render:
\* the auto-connect effect runs
WsRender ==
  /\ mounted
  /\ isConnected # renderedConnected
  /\ renderedConnected' = isConnected
  /\ AutoConnectEffect(renderedConnected, isConnected, socket)
  /\ UNCHANGED <<mounted, isConnected, wsSessionId, connectionError, wsEvents>>
  /\ UNCHANGED notWs

\* unmount: the cleanup of the last run of the effect calls
\* webSocketClient.disconnect(), and the listeners are removed
WsUnmount ==
  /\ mounted
  /\ mounted' = FALSE
  /\ disconnectCalls' = disconnectCalls + (IF autoConnect THEN 1 ELSE 0)
  /\ socket' = IF autoConnect THEN AfterDisconnect(socket) ELSE socket
  /\ UNCHANGED <<isConnected, renderedConnected, wsSessionId, connectionError, connectCalls,
                 wsEvents>>
  /\ UNCHANGED notWs

\* the socket that the client is closing closes with no listener of the hook
\* left to hear ws_disconnected
SocketCloses ==
  /\ ~ mounted
  /\ socket = "closing"
  /\ socket' = "closed"
  /\ UNCHANGED <<mounted, isConnected, renderedConnected, wsSessionId, connectionError,
                 connectCalls, disconnectCalls, wsEvents>>
  /\ UNCHANGED notWs

WsInit ==
  /\ mounted = FALSE
  /\ isConnected = FALSE
  /\ renderedConnected = FALSE
  /\ wsSessionId = 0
  /\ connectionError = "null"
  /\ socket = "closed"
  /\ connectCalls = 0
  /\ disconnectCalls = 0
  /\ wsEvents = 0

WsNext ==
  \/ WsMount
  \/ \E sessionId \in WsSessionIds : OnWsConnected(sessionId)
  \/ \E reason \in DisconnectReasons : OnWsDisconnected(reason)
  \/ \E error \in WsErrors : handleError(error)
  \/ connect
  \/ disconnect
  \/ WsRender
  \/ WsUnmount
  \/ SocketCloses

(* --------------------------- DataStreamMonitor ------------------------- *)
StreamIds == {1, 2}
StreamOps == {"start", "stop", "delete"}
\* listStreams requests issued in SpecStreams
MaxListRequests == 4
\* create, start, stop and delete requests issued in SpecStreams
MaxStreamOps == 2

\* dataIngestionService.listStreams(): the request is answered from the
\* service's streams and the response is in flight; creating tells that
\* createStream awaits it
listStreams(server, creating) ==
  /\ issued' = issued + 1
  /\ pendingLists' = pendingLists \cup
       {[seq |-> issued + 1, data |-> server, creating |-> creating]}

\* setInterval(loadStreams, 5000) fires: loadStreams up to its await
IntervalLoadStreams ==
  /\ issued < MaxListRequests
  /\ listStreams(serverStreams, FALSE)
  /\ UNCHANGED <<streams, serverStreams, pendingOps, applied, opsIssued, isLoading,
                 renderedStreams, renderedLoading>>
  /\ UNCHANGED notDsm

\* setStreams(response.data.streams)
setStreams(request) ==
  /\ streams' = request.data
  /\ applied' = request.seq

\* the finally of createStream once its loadStreams() has returned
AfterLoadStreams(request) ==
  isLoading' = IF request.creating THEN FALSE ELSE isLoading

\* the await of loadStreams resumes with the response
ListResolves(request) ==
  /\ request \in pendingLists
  /\ pendingLists' = pendingLists \ {request}
  /\ setStreams(request)
  /\ AfterLoadStreams(request)
  /\ UNCHANGED <<serverStreams, pendingOps, issued, opsIssued, renderedStreams,
                 renderedLoading>>
  /\ UNCHANGED notDsm

\* the await of loadStreams rejects: console.error only
ListRejects(request) ==
  /\ request \in pendingLists
  /\ pendingLists' = pendingLists \ {request}
  /\ AfterLoadStreams(request)
  /\ UNCHANGED <<streams, serverStreams, pendingOps, issued, applied, opsIssued,
                 renderedStreams, renderedLoading>>
  /\ UNCHANGED notDsm

\* the buttons of a stream listed in the last render: Stop when
\* stream.is_running, Start otherwise, Delete always
ButtonShown(op, status) ==
  CASE op = "start" -> status = "stopped"
    [] op = "stop" -> status = "running"
    [] OTHER -> status # "absent"

\* startStream, stopStream, deleteStream up to their first await
ClickStreamOp(op, streamId) ==
  /\ opsIssued < MaxStreamOps
  /\ ButtonShown(op, renderedStreams[streamId])
  /\ opsIssued' = opsIssued + 1
  /\ pendingOps' = pendingOps \cup {[n |-> opsIssued + 1, op |-> op, id |-> streamId]}
  /\ UNCHANGED <<streams, serverStreams, pendingLists, issued, applied, isLoading,
                 renderedStreams, renderedLoading>>
  /\ UNCHANGED notDsm

\* createStream up to its first await; the button is disabled while the
\* isLoading of the last render is true, and setIsLoading(true) is rendered at
\* the end of the click (without the updates that responses have queued)
ClickCreateStream(streamId) ==
  /\ opsIssued < MaxStreamOps
  /\ ~ renderedLoading
  /\ isLoading' = TRUE
  /\ renderedLoading' = TRUE
  /\ opsIssued' = opsIssued + 1
  /\ pendingOps' = pendingOps \cup
       {[n |-> opsIssued + 1, op |-> "create", id |-> streamId]}
  /\ UNCHANGED <<streams, serverStreams, pendingLists, issued, applied, renderedStreams>>
  /\ UNCHANGED notDsm

\* the service's streams after the request
ServerApply(server, request) ==
  [server EXCEPT ![request.id] =
     IF request.op = "create" THEN (IF @ = "absent" THEN "stopped" ELSE @)
     ELSE IF @ = "absent" THEN @
     ELSE CASE request.op = "start" -> "running"
            [] request.op = "stop" -> "stopped"
            [] OTHER -> "absent"]

\* the first await resolves: the handler goes on to await loadStreams()
OpResolves(request) ==
  /\ request \in pendingOps
  /\ issued < MaxListRequests
  /\ pendingOps' = pendingOps \ {request}
  /\ serverStreams' = ServerApply(serverStreams, request)
  /\ listStreams(ServerApply(serverStreams, request), request.op = "create")
  /\ UNCHANGED <<streams, applied, opsIssued, isLoading, renderedStreams, renderedLoading>>
  /\ UNCHANGED notDsm

\* the first await rejects: console.error, no reload; createStream's finally
OpRejects(request) ==
  /\ request \in pendingOps
  /\ pendingOps' = pendingOps \ {request}
  /\ isLoading' = IF request.op = "create" THEN FALSE ELSE isLoading
  /\ UNCHANGED <<streams, serverStreams, pendingLists, issued, applied, opsIssued,
                 renderedStreams, renderedLoading>>
  /\ UNCHANGED notDsm

\* React renders the component with the updates that responses have queued
DsmRender ==
  /\ renderedStreams # streams \/ renderedLoading # isLoading
  /\ renderedStreams' = streams
  /\ renderedLoading' = isLoading
  /\ UNCHANGED <<streams, serverStreams, pendingLists, pendingOps, issued, applied,
                 opsIssued, isLoading>>
  /\ UNCHANGED notDsm

\* after the mount effect: loadStreams() called once, the interval armed
DsmInit ==
  /\ streams = [i \in StreamIds |-> "absent"]
  /\ serverStreams = [i \in StreamIds |-> IF i = 1 THEN "stopped" ELSE "absent"]
  /\ pendingLists = {[seq |-> 1, creating |-> FALSE,
                      data |-> [i \in StreamIds |-> IF i = 1 THEN "stopped" ELSE "absent"]]}
  /\ pendingOps = {}
  /\ issued = 1
  /\ applied = 0
  /\ opsIssued = 0
  /\ isLoading = FALSE
  /\ renderedStreams = [i \in StreamIds |-> "absent"]
  /\ renderedLoading = FALSE

DsmNext ==
  \/ IntervalLoadStreams
  \/ \E request \in pendingLists : ListResolves(request)
  \/ \E request \in pendingLists : ListRejects(request)
  \/ \E op \in StreamOps, streamId \in StreamIds : ClickStreamOp(op, streamId)
  \/ \E streamId \in StreamIds : ClickCreateStream(streamId)
  \/ \E request \in pendingOps : OpResolves(request)
  \/ \E request \in pendingOps : OpRejects(request)
  \/ DsmRender

(* --------------------------- BiofeedbackControls ----------------------- *)
\* createSession calls, configuration changes and Reset clicks in
\* SpecBiofeedback, taken together
MaxBfEvents == 3
ThresholdKeys == {"low", "medium", "high"}
\* positions of a slider (min 0, max 100, step 1) that are tried
SliderValues == {10, 90}

\* thresholds: { low: 0.3, medium: 0.6, high: 0.8 }
DefaultThresholds == [low |-> 3000, medium |-> 6000, high |-> 8000]

\* thresholds of a config that getDefaultConfig may answer with
ServiceDefaults == {[low |-> 2000, medium |-> 5000, high |-> 9000]}

\* initializeSession up to its await, with the config of the render whose
\* effect calls it: the id stands for biofeedback_${Date.now()}; its
\* setIsLoading(true), like the setIsLoading(false) of finally, is queued
\* for a later render
initializeSession ==
  /\ bfIsLoading' = TRUE
  /\ createCalls' = createCalls + 1
  /\ pendingCreates' = pendingCreates \cup {[id |-> createCalls + 1, config |-> renderedConfig]}

\* useEffect(() => { if (isSessionActive && !sessionId) initializeSession() },
\* [isSessionActive]), with the sessionId of the render
SessionEffect(active) ==
  IF active /\ renderedSessionId = 0
  THEN createCalls + configChanges < MaxBfEvents /\ initializeSession
  ELSE UNCHANGED <<bfIsLoading, createCalls, pendingCreates>>

\* the Dashboard's click renders the component with another isSessionActive
\* (updates queued outside the click wait for a later render): the effect runs
SetSessionActive(active) ==
  /\ active # isSessionActive
  /\ isSessionActive' = active
  /\ SessionEffect(active)
  /\ UNCHANGED <<bfSessionId, bfConfig, notified, pendingUpdates, serviceConfig,
                 configChanges, bfErrors, renderedSessionId, renderedConfig,
                 pendingDefaults,
                 renderedIsLoading>>
  /\ UNCHANGED notBf

\* createSession resolves: setSessionId, onConfigChange?.(config), finally
CreateResolves(request) ==
  /\ request \in pendingCreates
  /\ pendingCreates' = pendingCreates \ {request}
  /\ serviceConfig' = [serviceConfig EXCEPT ![request.id] = <<request.config>>]
  /\ bfSessionId' = request.id
  /\ notified' = <<request.config>>
  /\ bfIsLoading' = FALSE
  /\ UNCHANGED <<isSessionActive, bfConfig, createCalls, pendingUpdates, configChanges,
                 bfErrors, renderedSessionId, renderedConfig, pendingDefaults,
                 renderedIsLoading>>
  /\ UNCHANGED notBf

\* createSession rejects: catch, finally
CreateRejects(request) ==
  /\ request \in pendingCreates
  /\ pendingCreates' = pendingCreates \ {request}
  /\ bfErrors' = bfErrors + 1
  /\ bfIsLoading' = FALSE
  /\ UNCHANGED <<isSessionActive, bfSessionId, bfConfig, notified, createCalls,
                 pendingUpdates, serviceConfig, configChanges, renderedSessionId,
                 renderedConfig, pendingDefaults,
                 renderedIsLoading>>
  /\ UNCHANGED notBf

\* React renders the component with the state set last
BfRender ==
  /\ \/ renderedSessionId # bfSessionId
     \/ renderedConfig # bfConfig
     \/ renderedIsLoading # bfIsLoading
  /\ renderedSessionId' = bfSessionId
  /\ renderedConfig' = bfConfig
  /\ renderedIsLoading' = bfIsLoading
  /\ UNCHANGED <<isSessionActive, bfSessionId, bfIsLoading, bfConfig, notified, createCalls,
                 pendingCreates, pendingUpdates, serviceConfig, configChanges, bfErrors,
                 pendingDefaults>>
  /\ UNCHANGED notBf

\* updateConfig up to its await, called as change n with the sessionId of
\* the render that made the function
updateConfig(newConfig, closureSessionId, n) ==
  /\ bfConfig' = newConfig
  /\ notified' = <<newConfig>>
  /\ pendingUpdates' =
       IF closureSessionId # 0
       THEN pendingUpdates \cup {[n |-> n, id |-> closureSessionId, config |-> newConfig]}
       ELSE pendingUpdates

\* [key]: value[0] / 100
NewThresholds(thresholds, key, value) == [thresholds EXCEPT ![key] = value * (One \div 100)]

\* onValueChange of a threshold slider (disabled while !isSessionActive):
\* the new config is built from the config of the last render. After a
\* discrete event (key press, pointer-down) React renders the event's own
\* setConfig at its end, leaving a sessionId queued by a promise callback
\* for the later render; the setConfig of a pointer-move waits for it too
handleThresholdChange(key, value, discrete) ==
  /\ isSessionActive
  /\ createCalls + configChanges < MaxBfEvents
  /\ configChanges' = configChanges + 1
  /\ updateConfig(NewThresholds(renderedConfig, key, value), renderedSessionId,
                  configChanges + 1)
  /\ renderedConfig' = IF discrete THEN NewThresholds(renderedConfig, key, value)
                       ELSE renderedConfig
  /\ UNCHANGED <<isSessionActive, bfSessionId, bfIsLoading, createCalls, pendingCreates,
                 serviceConfig, bfErrors, renderedSessionId, pendingDefaults,
                 renderedIsLoading>>
  /\ UNCHANGED notBf

\* handleVisualConfigChange, handleAudioConfigChange, handleHapticConfigChange
\* and the adaptive switch (all disabled while !isSessionActive): the new
\* config has the thresholds of the last render, so the render at the end
\* of the event shows those thresholds again
handleVisualConfigChange ==
  /\ isSessionActive
  /\ createCalls + configChanges < MaxBfEvents
  /\ configChanges' = configChanges + 1
  /\ updateConfig(renderedConfig, renderedSessionId, configChanges + 1)
  /\ UNCHANGED <<isSessionActive, bfSessionId, bfIsLoading, createCalls, pendingCreates,
                 serviceConfig, bfErrors, renderedSessionId, renderedConfig,
                 pendingDefaults,
                 renderedIsLoading>>
  /\ UNCHANGED notBf

\* resetToDefaults up to its await: the handler has no guard of its own, the
\* button is disabled while the isLoading of the last render is true
resetToDefaults ==
  /\ ~ renderedIsLoading
  /\ createCalls + configChanges < MaxBfEvents
  /\ configChanges' = configChanges + 1
  /\ pendingDefaults' = pendingDefaults \cup
       {[n |-> configChanges + 1, id |-> renderedSessionId]}
  /\ UNCHANGED <<isSessionActive, bfSessionId, bfIsLoading, bfConfig, notified, createCalls,
                 pendingCreates, pendingUpdates, serviceConfig, bfErrors,
                 renderedSessionId, renderedConfig,
                 renderedIsLoading>>
  /\ UNCHANGED notBf

\* getDefaultConfig resolves: updateConfig(response.data.config)
DefaultsResolve(request, defaultConfig) ==
  /\ request \in pendingDefaults
  /\ pendingDefaults' = pendingDefaults \ {request}
  /\ updateConfig(defaultConfig, request.id, request.n)
  /\ UNCHANGED <<isSessionActive, bfSessionId, bfIsLoading, createCalls, pendingCreates,
                 serviceConfig, configChanges, bfErrors, renderedSessionId,
                 renderedConfig,
                 renderedIsLoading>>
  /\ UNCHANGED notBf

\* getDefaultConfig rejects: console.error only
DefaultsReject(request) ==
  /\ request \in pendingDefaults
  /\ pendingDefaults' = pendingDefaults \ {request}
  /\ bfErrors' = bfErrors + 1
  /\ UNCHANGED <<isSessionActive, bfSessionId, bfIsLoading, bfConfig, notified, createCalls,
                 pendingCreates, pendingUpdates, serviceConfig, configChanges,
                 renderedSessionId, renderedConfig,
                 renderedIsLoading>>
  /\ UNCHANGED notBf

\* updateSessionConfig resolves: the service holds the new config
UpdateResolves(request) ==
  /\ request \in pendingUpdates
  /\ pendingUpdates' = pendingUpdates \ {request}
  /\ serviceConfig' = [serviceConfig EXCEPT ![request.id] = <<request.config>>]
  /\ UNCHANGED <<isSessionActive, bfSessionId, bfIsLoading, bfConfig, notified, createCalls,
                 pendingCreates, configChanges, bfErrors, renderedSessionId,
                 renderedConfig, pendingDefaults,
                 renderedIsLoading>>
  /\ UNCHANGED notBf

\* a slip: the local config is rolled back to what the service holds
UpdateRejectsRollsBack(request) ==
  /\ request \in pendingUpdates
  /\ pendingUpdates' = pendingUpdates \ {request}
  /\ bfErrors' = bfErrors + 1
  /\ bfConfig' = serviceConfig[request.id][1]
  /\ UNCHANGED <<isSessionActive, bfSessionId, bfIsLoading, notified, createCalls,
                 pendingCreates, serviceConfig, configChanges, renderedSessionId,
                 renderedConfig, pendingDefaults,
                 renderedIsLoading>>
  /\ UNCHANGED notBf

\* updateSessionConfig rejects: console.error only
UpdateRejects(request) ==
  /\ request \in pendingUpdates
  /\ pendingUpdates' = pendingUpdates \ {request}
  /\ bfErrors' = bfErrors + 1
  /\ UNCHANGED <<isSessionActive, bfSessionId, bfIsLoading, bfConfig, notified, createCalls,
                 pendingCreates, serviceConfig, configChanges, renderedSessionId,
                 renderedConfig, pendingDefaults,
                 renderedIsLoading>>
  /\ UNCHANGED notBf

\* mounted by an idle Dashboard
BfInit ==
  /\ isSessionActive = FALSE
  /\ bfSessionId = 0
  /\ bfIsLoading = FALSE
  /\ bfConfig = DefaultThresholds
  /\ notified = << >>
  /\ createCalls = 0
  /\ pendingCreates = {}
  /\ pendingUpdates = {}
  /\ serviceConfig = [id \in 1..(MaxBfEvents + 1) |-> << >>]
  /\ configChanges = 0
  /\ bfErrors = 0
  /\ renderedSessionId = 0
  /\ renderedConfig = DefaultThresholds
  /\ renderedIsLoading = FALSE
  /\ pendingDefaults = {}

BfNext ==
  \/ \E active \in BOOLEAN : SetSessionActive(active)
  \/ \E request \in pendingCreates : CreateResolves(request)
  \/ \E request \in pendingCreates : CreateRejects(request)
  \/ BfRender
  \/ \E key \in ThresholdKeys, value \in SliderValues, discrete \in BOOLEAN :
       handleThresholdChange(key, value, discrete)
  \/ handleVisualConfigChange
  \/ resetToDefaults
  \/ \E request \in pendingDefaults, defaultConfig \in ServiceDefaults :
       DefaultsResolve(request, defaultConfig)
  \/ \E request \in pendingDefaults : DefaultsReject(request)
  \/ \E request \in pendingUpdates : UpdateResolves(request)
  \/ \E request \in pendingUpdates : UpdateRejects(request)

(* --------------------------- specifications ---------------------------- *)
Init == DashInit /\ AppInit /\ PlvInit /\ MetInit /\ FusInit /\ OrchInit /\ SinkInit /\ CfgInit /\ BufInit /\ WinInit /\ ConfInit /\ NotifInit /\ BfInit /\ DsmInit /\ WsInit /\ StatInit

Next ==
  \/ DashNext \/ AppNext \/ PlvNext \/ MetNext \/ FusNext \/ OrchNext
  \/ SinkNext \/ BufNext \/ WinNext \/ ConfNext \/ PanelNext
  \/ StatNext \/ WsNext \/ DsmNext \/ BfNext

\* the whole front end
Spec == Init /\ [][Next]_vars

\* the Dashboard alone
SpecDashboard == Init /\ [][DashNext]_vars

\* the mounted App components alone
SpecApp == Init /\ [][AppNext]_vars

\* the plv_update listener alone
SpecPlv == Init /\ [][PlvNext]_vars

\* the synchrony notifications and the SynchronyMetrics history alone
SpecMetrics == Init /\ [][MetNext]_vars

InitFusion == DashInit /\ AppInit /\ PlvInit /\ MetInit /\ FusAnyInit /\ OrchInit /\ SinkInit /\ CfgInit /\ BufInit /\ WinInit /\ ConfInit /\ NotifInit /\ BfInit /\ DsmInit /\ WsInit /\ StatInit

\* resonance_window as a function of its arguments
SpecFusion == InitFusion /\ [][FusNext]_vars

\* the orchestrator alone, with its scheduling
SpecOrch == Init /\ [][OrchNext]_vars /\ OrchFairness

\* App 1 after a run of low draws
InitLow ==
  DashInit /\ AppLowInit /\ PlvInit /\ MetInit /\ FusInit /\ OrchInit /\ SinkInit /\ CfgInit /\ BufInit /\ WinInit /\ ConfInit /\ NotifInit /\ BfInit /\ DsmInit /\ WsInit /\ StatInit
SpecAppLow == InitLow /\ [][AppLongNext]_vars

\* useWebSocket over a long run of notifications
SpecNotif == Init /\ [][NotifNext]_vars

\* useWebSocket with the NotificationPanel
SpecPanel == Init /\ [][PanelNext]_vars

\* fuse on any four estimator results
InitConfidence ==
  /\ DashInit /\ AppInit /\ PlvInit /\ MetInit /\ FusInit /\ OrchInit /\ SinkInit /\ CfgInit
  /\ BufInit /\ WinInit /\ ConfAnyInit /\ NotifInit /\ BfInit /\ DsmInit /\ WsInit /\ StatInit
SpecConfidence == InitConfidence /\ [][ConfNext]_vars

\* extract on any pair of sample sets
InitWindow ==
  /\ DashInit /\ AppInit /\ PlvInit /\ MetInit /\ FusInit /\ OrchInit /\ SinkInit /\ CfgInit
  /\ BufInit /\ WinAnyInit /\ ConfInit /\ NotifInit /\ BfInit /\ DsmInit /\ WsInit /\ StatInit
SpecWindow == InitWindow /\ [][WinNext]_vars

\* one channel's Stream Buffer with a writer and a reader
SpecBuffer == Init /\ [][BufNext]_vars /\ BufFairness

\* a session from its creation request on
InitSession ==
  DashInit /\ AppInit /\ PlvInit /\ MetInit /\ FusInit /\ OrchNoneInit /\ SinkInit /\ CfgNoneInit /\ BufInit /\ WinInit /\ ConfInit /\ NotifInit /\ BfInit /\ DsmInit /\ WsInit /\ StatInit
SpecSession == InitSession /\ [][SessionNext]_vars

\* the orchestrator and a sink that may fail, recover and be slow
SpecSink == Init /\ [][OrchNext \/ SinkNext]_vars /\ OrchFairness

\* App 1 around the point where its buffer is full
InitLong == DashInit /\ AppLongInit /\ PlvInit /\ MetInit /\ FusInit /\ OrchInit /\ SinkInit /\ CfgInit /\ BufInit /\ WinInit /\ ConfInit /\ NotifInit /\ BfInit /\ DsmInit /\ WsInit /\ StatInit

SpecAppLong == InitLong /\ [][AppLongNext]_vars

\* ServiceStatus over a run of health results
InitStatus == DashInit /\ AppInit /\ PlvInit /\ MetInit /\ FusInit /\ OrchInit /\ SinkInit /\ CfgInit /\ BufInit /\ WinInit /\ ConfInit /\ NotifInit /\ BfInit /\ DsmInit /\ WsInit /\ StatAnyInit
SpecStatus == InitStatus /\ [][StatNext]_vars

\* the connection side of useWebSocket with the client's events
SpecWs == Init /\ [][WsNext]_vars

\* DataStreamMonitor with its requests in flight
SpecStreams == Init /\ [][DsmNext]_vars

\* BiofeedbackControls with its requests in flight
SpecBiofeedback == Init /\ [][BfNext]_vars

(* ------------------------------ C1 ------------------------------------- *)
SessionRefs == 1..(MaxSessions + 1)

\* orchestrator state of the k-th session object created by the Dashboard
SessionPhase(k) ==
  IF activeSession.ref = k
    THEN CASE systemStatus = "running" -> "ACTIVE"
           [] systemStatus = "paused"  -> "PAUSED"
           [] OTHER                    -> "IDLE"
    ELSE IF k < nextRef THEN "CLOSED" ELSE "IDLE"

AllowedTransitions ==
  { <<"IDLE", "ACTIVE">>, <<"ACTIVE", "PAUSED">>, <<"PAUSED", "ACTIVE">>,
    <<"ACTIVE", "CLOSED">>, <<"PAUSED", "CLOSED">> }

\* C1: under any sequence of start, pause, resume and stop a session's state
\* changes only along IDLE -> ACTIVE, ACTIVE -> PAUSED, PAUSED -> ACTIVE and
\* ACTIVE/PAUSED -> CLOSED; CLOSED is terminal.
C1_SessionStateMachine ==
  [][\A k \in SessionRefs :
        \/ SessionPhase(k)' = SessionPhase(k)
        \/ <<SessionPhase(k), SessionPhase(k)'>> \in AllowedTransitions]_vars

\* a first session is closed, a second one is paused, a third not yet started
C1_Witness ==
  /\ SessionPhase(1) = "CLOSED"
  /\ SessionPhase(2) = "PAUSED"
  /\ SessionPhase(3) = "IDLE"

(* ------------------------------ C2 ------------------------------------- *)
\* C2: while a session is paused no tick runs (the session time does not
\* advance and no data point is produced), and every data point buffered
\* before the pause is still there, unchanged and in order, when it resumes:
\* a step taken while the session is not running, other than Reset, leaves
\* sessionTime and resonanceData as they were.
C2_PausedKeepsBuffer ==
  [][\A s \in Apps :
        (~ isRunning[s] /\ ~ ClickReset(s)) =>
          /\ sessionTime'[s] = sessionTime[s]
          /\ resonanceData'[s] = resonanceData[s]]_vars

(* ------------------------------ C3 ------------------------------------- *)
\* C3: every tick emits exactly one record: the buffer grows by exactly one
\* record (the oldest leaving once KeepPoints are held), the new record is the
\* last one and carries the tick's resonance, and the records before it are the
\* earlier ones, unchanged and in their order.
C3_OneRecordPerTick ==
  [][\A s \in Apps :
        sessionTime'[s] = sessionTime[s] + 1 =>
          LET old == resonanceData[s]
              new == resonanceData'[s]
              kept == Len(new) - 1
          IN  /\ Len(new) = Min(Len(old) + 1, KeepPoints)
              /\ new[Len(new)].resonance = currentResonance'[s]
              /\ new[Len(new)].time = Len(old)
              /\ \A i \in 1..kept : new[i] = old[Len(old) - kept + i]]_vars

\* App 1 has ticked past the capacity of its buffer
C3_Witness ==
  /\ sessionTime[1] > KeepPoints
  /\ Len(resonanceData[1]) = KeepPoints
  /\ resonanceData[1][1].time = sessionTime[1] - KeepPoints

(* ------------------------------ C4 ------------------------------------- *)
NoEstimatorValid(m) ==
  /\ ~ m.plv.defined
  /\ ~ m.crqa_determinism.defined
  /\ ~ m.fnirs_coherence.defined

\* C4: an update in which no estimator is valid emits no record at all: when
\* it is rendered the history is left as it was (in particular no zero-filled
\* point is added).
C4_NoRecordWhenAllInvalid ==
  [][(MetRender /\ NoEstimatorValid(synchronyData)) =>
        historicalData' = historicalData]_vars

(* ------------------------------ C5 ------------------------------------- *)
\* capacity of the plv buffer: the 19 kept and the one appended
PlvCapacity == PlvKeep + 1

\* C5: after any sequence of pushes the buffer holds exactly the most recent
\* `capacity` samples received (all of them while fewer have arrived), in
\* arrival order, and never more than `capacity`.
C5_MostRecentKept ==
  LET n == Len(plvLog)
      m == Len(plvData)
  IN  /\ m <= PlvCapacity
      /\ m = Min(n, PlvCapacity)
      /\ \A i \in 1..m : plvData[i] = plvLog[n - m + i]

\* capacity + 3 samples were pushed, the first of them distinguishable, and
\* the buffer starts at the fourth
C5_Witness ==
  /\ Len(plvLog) = PlvCapacity + 3
  /\ plvLog[1].plv = 9000
  /\ plvLog[5].plv = 9000
  /\ Len(plvData) = PlvCapacity
  /\ plvData[2].plv = 9000

(* ------------------------------ C6 ------------------------------------- *)
\* timestamp of the last accepted sample, 0 when none was accepted
LastAccepted(h) == IF h = << >> THEN 0 ELSE h[Len(h)].timestamp

\* C6: a sample whose timestamp is less than or equal to the last accepted
\* timestamp is rejected: rendering it leaves the buffer unchanged.
C6_StaleSampleRejected ==
  [][(MetRender /\ lastUpdate <= LastAccepted(historicalData)) =>
        historicalData' = historicalData]_vars

(* ------------------------------ C7 ------------------------------------- *)
\* C7: when fNIRS is absent for either participant the estimator is carried
\* as invalid: the record's fnirs is not a number (never the value 0).
C7_MissingNotZero ==
  (resonance # << >> /\ ~ (windows.fnirsA /\ windows.fnirsB)) =>
    ~ resonance[1].fnirs.defined

(* ------------------------------ C8 ------------------------------------- *)
\* indices of the estimators that are valid for the windows at hand
ValidEstimators == IF windows.fnirsA /\ windows.fnirsB THEN {1, 2, 3, 4} ELSE {1, 2, 3}

EstimatorValue(i) ==
  CASE i = 1 -> windows.plv [] i = 2 -> windows.r_env
    [] i = 3 -> windows.crqa_n [] OTHER -> windows.coherence

\* sum of the weights of the estimators in S
RECURSIVE WeightOf(_)
WeightOf(S) ==
  IF S = {} THEN 0
  ELSE LET i == CHOOSE j \in S : TRUE IN windows.w[i] + WeightOf(S \ {i})

\* sum of weight times value of the estimators in S
RECURSIVE WeightedValueOf(_)
WeightedValueOf(S) ==
  IF S = {} THEN 0
  ELSE LET i == CHOOSE j \in S : TRUE
       IN  windows.w[i] * EstimatorValue(i) + WeightedValueOf(S \ {i})

\* the valid values fused with their weights divided by the sum of the valid weights
RenormalizedSum == WeightedValueOf(ValidEstimators) \div WeightOf(ValidEstimators)

\* C8: the fused score equals the fusion of the valid values alone with the
\* weights renormalised to sum to 1.
C8_WeightsRenormalized ==
  resonance # << >> => resonance[1].r = logistic(RenormalizedSum)

(* ------------------------------ C9 ------------------------------------- *)
\* the current tick was fused (a record emitted or the tick skipped)
TickCompleted == lastOutcome.tick = tickNo /\ lastOutcome.kind \in {"emitted", "skipped"}

\* C9: every started tick of a session that is not closed meanwhile eventually
\* completes, by a record or by an explicit skip, even when estimators never
\* return; and a completed tick fused exactly the estimators that returned a
\* valid result within their budget (a timed-out estimator is not among them).
C9_TickCompletes ==
  /\ [](inFlight => <>(TickCompleted \/ orchState = "CLOSED"))
  /\ []((~ inFlight /\ orchState # "CLOSED" /\ TickCompleted) =>
          /\ lastOutcome.valid = {e \in Estimators : est[e] = "valid"}
          /\ (lastOutcome.kind = "emitted") = (lastOutcome.valid # {}))

\* a tick in which crqa timed out was fused from plv and r_env alone
C9_Witness ==
  /\ ~ inFlight
  /\ orchState = "ACTIVE"
  /\ est["crqa"] = "timedout"
  /\ est["fnirs"] = "invalid"
  /\ lastOutcome = [tick |-> tickNo, kind |-> "emitted", valid |-> {"plv", "r_env"}]

(* ------------------------------ C11 ------------------------------------ *)
\* record k is in the local buffer
InOutbox(k) == \E i \in 1..Len(outbox) : outbox[i] = k

\* C11: a tick in flight while the sink is down or the local buffer is full
\* still completes; the local buffer never exceeds its capacity and holds the
\* newest emitted records in order; and a record that is neither delivered nor
\* buffered was dropped only because a full buffer of newer records followed it.
C11_SinkNeverBlocks ==
  /\ []((inFlight /\ (~ sinkUp \/ Len(outbox) = OutboxCapacity)) =>
          <>(TickCompleted \/ orchState = "CLOSED"))
  /\ [](Len(outbox) <= OutboxCapacity)
  /\ [](\A i \in 1..Len(outbox) :
          outbox[i] = resonanceSeq[Len(resonanceSeq) - Len(outbox) + i])
  /\ [](\A i \in 1..Len(resonanceSeq) :
          (resonanceSeq[i] \notin delivered /\ ~ InOutbox(resonanceSeq[i])) =>
             Len(resonanceSeq) - i >= OutboxCapacity)

\* three records were emitted while the sink was down: the first was dropped
C11_Witness ==
  /\ ~ sinkUp
  /\ delivered = {}
  /\ Len(resonanceSeq) = OutboxCapacity + 1
  /\ outbox = SliceLast(resonanceSeq, OutboxCapacity)
  /\ ~ InOutbox(resonanceSeq[1])

(* ------------------------------ C12 ------------------------------------ *)
\* a weight is negative or not finite, or the channel set is not the one the
\* configured estimators read
Malformed(cfg) ==
  \/ \E i \in 1..Len(cfg.weights) : ~ cfg.weights[i].finite \/ cfg.weights[i].num < 0
  \/ \E e \in Estimators : ChannelOf(e) \notin cfg.channels
  \/ \E c \in cfg.channels : \A e \in Estimators : ChannelOf(e) # c

\* C12: a creation request with a malformed configuration is rejected, no
\* session exists after it and nothing has ticked; any session that exists, and
\* any tick that ran, has a well-formed configuration.
C12_MalformedConfigRejected ==
  /\ (lastRequest # NoConfig /\ Malformed(lastRequest)) =>
       /\ createError = "ConfigurationError"
       /\ orchState = "NONE"
       /\ config = NoConfig
       /\ tickNo = 0 /\ ~ inFlight
  /\ (orchState # "NONE" \/ tickNo > 0) => (config # NoConfig /\ ~ Malformed(config))

\* a request with a non-finite weight was rejected
C12_Witness ==
  /\ lastRequest.weights # << >>
  /\ ~ lastRequest.weights[4].finite
  /\ createError = "ConfigurationError"
  /\ orchState = "NONE"

(* ------------------------------ C13 ------------------------------------ *)
\* C13: no step taken while the session exists and is not closed changes its
\* configuration.
C13_ConfigImmutable ==
  [][(orchState \in {"IDLE", "ACTIVE", "PAUSED"}) => (config' = config)]_vars

\* a session created with the non-default configuration completed a tick and
\* is paused, still with the configuration it was created with
C13_Witness ==
  /\ orchState = "PAUSED"
  /\ lastOutcome.tick = 1
  /\ config = lastRequest
  /\ config.window_len = 100
  /\ config.weights[1] = Finite(2500)

(* ------------------------------ C14 ------------------------------------ *)
\* C14: every fused score produced lies strictly between 0 and 1, and every
\* valid estimator value (PLV, CRQA_n, coherence) lies in [0, 1]; for the
\* points of the App and for the record resonance_window returns.
C14_ScoreInOpenInterval ==
  /\ \A s \in Apps : \A i \in 1..Len(resonanceData[s]) :
       LET p == resonanceData[s][i] IN
         /\ 0 < p.resonance /\ p.resonance < One
         /\ 0 <= p.plv /\ p.plv <= One
         /\ 0 <= p.crqa /\ p.crqa <= One
  /\ resonance # << >> =>
       /\ 0 < resonance[1].r /\ resonance[1].r < One
       /\ 0 <= resonance[1].plv.num /\ resonance[1].plv.num <= One
       /\ 0 <= resonance[1].crqa.num /\ resonance[1].crqa.num <= One
       /\ (windows.fnirsA /\ windows.fnirsB) =>
            (0 <= resonance[1].fnirs.num /\ resonance[1].fnirs.num <= One)

(* ------------------------------ C15 ------------------------------------ *)
\* w2 is w1 with the value of exactly one estimator raised: same weights, same
\* fNIRS presence, the other values equal
RaisedOne(w1, w2) ==
  /\ w2.w = w1.w /\ w2.fnirsA = w1.fnirsA /\ w2.fnirsB = w1.fnirsB /\ w2.conf = w1.conf
  /\ \/ w2.plv > w1.plv /\ w2.r_env = w1.r_env /\ w2.crqa_n = w1.crqa_n
          /\ w2.coherence = w1.coherence
     \/ w2.plv = w1.plv /\ w2.r_env > w1.r_env /\ w2.crqa_n = w1.crqa_n
          /\ w2.coherence = w1.coherence
     \/ w2.plv = w1.plv /\ w2.r_env = w1.r_env /\ w2.crqa_n > w1.crqa_n
          /\ w2.coherence = w1.coherence
     \/ w2.plv = w1.plv /\ w2.r_env = w1.r_env /\ w2.crqa_n = w1.crqa_n
          /\ w2.coherence > w1.coherence

\* C15: raising the value of one estimator, the weights and the other values
\* fixed, never lowers the fused r.
C15_FusionMonotone ==
  resonance # << >> =>
    \A w2 \in WindowInputs :
      RaisedOne(windows, w2) => resonance_window(w2).r >= resonance[1].r

\* r was computed for a window, and raising plv alone gives a strictly higher r
C15_Witness ==
  /\ resonance # << >>
  /\ windows.plv = 2000
  /\ resonance_window([windows EXCEPT !.plv = 8000]).r > resonance[1].r

(* ------------------------------ C16 ------------------------------------ *)
\* sample s occurs in seq
Holds(seq, s) == \E i \in 1..Len(seq) : seq[i] = s

\* C16: the result of a read holds exactly the samples of [t0, t1) that were in
\* the buffer when the read was taken, in time order; no push or eviction
\* changes the result or what the reader has consumed of it; and the reader
\* reaches the end of its result whatever the writer does.
C16_ReadIsSnapshot ==
  /\ [](/\ \A s \in Samples :
             Holds(snapshot, s) <=>
               (Holds(bufAtRead, s) /\ readRange[1] <= s.t /\ s.t < readRange[2])
        /\ \A i \in 1..(Len(snapshot) - 1) : snapshot[i].t < snapshot[i + 1].t
        /\ \A i \in 1..Len(consumed) : consumed[i] = snapshot[i])
  /\ [][sbuf' # sbuf => (snapshot' = snapshot /\ consumed' = consumed)]_vars
  /\ [](reading => <>(consumed = snapshot))

\* the reader is half way through a result whose first sample has meanwhile
\* been evicted from the buffer
C16_Witness ==
  /\ reading
  /\ Len(snapshot) = 2
  /\ Len(consumed) = 1
  /\ ~ Holds(sbuf, snapshot[1])
  /\ Len(sbuf) = BufCapacity

(* ------------------------------ C17 ------------------------------------ *)
\* slot k lies in a run of more than MaxGapSlots consecutive empty slots
InLongGap(slots, k) ==
  \E lo \in Grid : \E hi \in Grid :
    /\ lo <= k /\ k <= hi
    /\ hi - lo + 1 > MaxGapSlots
    /\ \A j \in lo..hi : j \notin slots

\* C17: a window in which either participant's samples cover less than
\* (1 - max_gap_fraction) of the window is invalid, and no slot of a gap longer
\* than the max-gap is filled by interpolation.
C17_GapRejected ==
  extracted # << >> =>
    /\ (\/ Cardinality(slotsA) * One < (One - MaxGapFraction) * WinLen
        \/ Cardinality(slotsB) * One < (One - MaxGapFraction) * WinLen)
         => ~ extracted[1].valid
    /\ \A k \in Grid : InLongGap(slotsA, k) => k \notin extracted[1].filledA
    /\ \A k \in Grid : InLongGap(slotsB, k) => k \notin extracted[1].filledB

\* A is complete; B lacks three scattered slots, each of which alone could be
\* interpolated, and so covers too little: the window is invalid
C17_Witness ==
  /\ extracted # << >>
  /\ slotsA = Grid
  /\ slotsB = {1, 3, 6}
  /\ extracted[1].filledB = {2, 4, 5}
  /\ ~ extracted[1].valid

(* ------------------------------ C18 ------------------------------------ *)
\* C18: when exactly one estimator is valid, the confidence of the emitted
\* record is strictly below the ceiling, whatever its value and SNR.
C18_SingleChannelCapped ==
  (fused # << >> /\ Cardinality({e \in Estimators : results[e].valid}) = 1) =>
    (fused[1].kind = "emitted" /\ fused[1].conf < ConfCeiling)

\* only plv is valid, with the best SNR: the cap is what keeps conf below the ceiling
C18_Witness ==
  /\ fused # << >>
  /\ {e \in Estimators : results[e].valid} = {"plv"}
  /\ results["plv"].snr = One
  /\ fused[1].conf = ConfCeiling - 1

(* ------------------------------ C19 ------------------------------------ *)
\* C19: after n notification events the list holds exactly the min(n, 100)
\* most recently received notifications, the most recent first, and never more
\* than 100.
C19_Last100NewestFirst ==
  LET n == Len(notifLog)
      m == Len(notifications)
  IN  /\ m <= 100
      /\ m = Min(n, 100)
      /\ \A i \in 1..m : notifications[i] = notifLog[n - i + 1]

\* 103 notifications arrived and were rendered: the list runs from the 103rd
\* down to the 4th
C19_Witness ==
  /\ Len(notifLog) = 103
  /\ Len(notifications) = 100
  /\ renderedNotifications = notifications
  /\ notifications[1].id = 103
  /\ notifications[100].id = 4
  /\ notifLog[2].topic = "synchrony_updates"

(* ------------------------------ C20 ------------------------------------ *)
\* C20: after clearAll no notification remains in the panel: the displayed
\* list is empty and the unread count is 0.
C20_ClearAllClears ==
  [][clearAll =>
       /\ DisplayedNotifications' = << >>
       /\ UnreadCount(renderedNotifications', readNotifications') = 0]_vars

(* ------------------------------ C21 ------------------------------------ *)
\* C21: per service the history holds at most 20 entries and, once rendered,
\* they are the most recent entries of the health results, in order (the
\* oldest dropped first); the uptime is 0 on an empty history, otherwise
\* 100 * healthy / entries of the retained history (to the fixed-point
\* unit), and always within 0..100.
C21_Last20AndUptime ==
  \A s \in Services :
    LET hist == healthHistory[s]
        log == healthLog[s]
        uptime == calculateUptime(hist)
    IN /\ Len(hist) <= HealthKeep
       /\ healthQueue = << >> => hist = SliceLast(log, HealthKeep)
       /\ uptime >= 0 /\ uptime <= 100 * One
       /\ Len(hist) = 0 => uptime = 0
       /\ Len(hist) > 0 =>
            /\ uptime * Len(hist) <= 100 * One * HealthyCount(hist)
            /\ 100 * One * HealthyCount(hist) < (uptime + 1) * Len(hist)

(* ------------------------------ C22 ------------------------------------ *)
\* C22: with autoConnect the hook calls webSocketClient.disconnect() only
\* when the component unmounts (or its user calls the hook's disconnect());
\* a ws_connected event never makes it call disconnect().
C22_DisconnectOnlyOnUnmount ==
  [][(disconnectCalls' # disconnectCalls) => (WsUnmount \/ disconnect)]_vars

(* ------------------------------ C23 ------------------------------------ *)
\* C23: the response of an earlier listStreams request never replaces in
\* streams the response of a request issued after it.
C23_LatestResponseWins ==
  [][applied' >= applied]_vars

(* ------------------------------ C24 ------------------------------------ *)
\* C24: a component instance calls createSession at most once, whatever
\* isSessionActive does while the first call is in flight or after it failed.
C24_AtMostOneCreate ==
  createCalls <= 1

(* ------------------------------ C27 ------------------------------------ *)
\* C27: a configuration change sets the local config and calls
\* onConfigChange with it before the remote update has been applied (the
\* update is only sent, when there is a session); when the update is
\* rejected the local config keeps the new value, nothing is retried and the
\* service's config is untouched, so the two may differ.
C27_NoRollbackOnFailure ==
  [][/\ (\/ \E key \in ThresholdKeys, value \in SliderValues, discrete \in BOOLEAN :
                 handleThresholdChange(key, value, discrete)
           \/ handleVisualConfigChange
           \/ \E request \in pendingDefaults, defaultConfig \in ServiceDefaults :
                 DefaultsResolve(request, defaultConfig))
          => /\ notified' = <<bfConfig'>>
             /\ serviceConfig' = serviceConfig
             /\ \A request \in pendingUpdates' \ pendingUpdates :
                  request.config = bfConfig'
     /\ (\E key \in ThresholdKeys, value \in SliderValues, discrete \in BOOLEAN :
           handleThresholdChange(key, value, discrete))
          => /\ \E key \in ThresholdKeys, value \in SliderValues :
                  bfConfig' = NewThresholds(renderedConfig, key, value)
             /\ renderedSessionId # 0 =>
                  \E request \in pendingUpdates' \ pendingUpdates :
                    request.id = renderedSessionId
     /\ (\E request \in pendingUpdates : UpdateRejects(request))
          => /\ bfConfig' = bfConfig
             /\ notified' = notified
             /\ serviceConfig' = serviceConfig
             /\ pendingUpdates' \subseteq pendingUpdates
             /\ pendingUpdates' # pendingUpdates]_vars

\* the only update was rejected: the local config differs from the service's
C27_Witness ==
  /\ bfSessionId # 0
  /\ configChanges = 1
  /\ bfErrors = 1
  /\ pendingUpdates = {}
  /\ pendingCreates = {}
  /\ serviceConfig[bfSessionId] # << >>
  /\ serviceConfig[bfSessionId] # <<bfConfig>>
  /\ notified = <<bfConfig>>

(* ------------------------------ C28 ------------------------------------ *)
\* C28: after any sequence of handleThresholdChange calls the thresholds
\* are ordered, low <= medium <= high.
C28_ThresholdsOrdered ==
  /\ bfConfig.low <= bfConfig.medium
  /\ bfConfig.medium <= bfConfig.high

(* ------------------------------ C25 ------------------------------------ *)
\* C25: activeSession is non-null exactly when systemStatus is 'running' or
\* 'paused', and pausing or resuming leaves the activeSession object as it
\* is (the same object, the same fields).
C25_SessionIffRunningOrPaused ==
  /\ [](activeSession # Null <=> systemStatus \in {"running", "paused"})
  /\ [][(ClickPause \/ ClickResume) => (activeSession' = activeSession)]_vars

\* a second session, paused some time after it was started
C25_Witness ==
  /\ systemStatus = "paused"
  /\ activeSession.ref = 2
  /\ activeSession.participants = 2
  /\ activeSession.startTime < now

(* ------------------------------ C26 ------------------------------------ *)
\* C26: for each filter tab the count shown on the tab equals the number of
\* notifications listed when that tab is selected and read notifications
\* are shown.
C26_TabCountMatchesList ==
  \A f \in Filters :
    notificationCounts(renderedNotifications)[f]
      = Len(FilteredNotifications(renderedNotifications, f, TRUE, readNotifications))

(* ------------------------------ C10 ------------------------------------ *)
\* the state Reset leaves a session in
Closed(s) ==
  /\ ~ isRunning[s]
  /\ sessionTime[s] = 0
  /\ resonanceData[s] = << >>
  /\ \A i \in 1..Len(pendingTicks[s]) : pendingTicks[s][i].rebased

\* C10: Reset of a session cancels its pending tick (the interval is disarmed)
\* and discards its data, the other sessions' state and pending ticks are
\* untouched, and a closed session shows nothing of a tick until it is
\* started again: no data point, no session time and no resonance of an
\* interval callback that ran before the Reset.
C10_ResetCancelsTick ==
  [][\A s \in Apps :
        /\ ClickReset(s) =>
             /\ ~ interval'[s]
             /\ Closed(s)'
             /\ \A o \in Apps \ {s} :
                  /\ sessionTime'[o] = sessionTime[o]
                  /\ isRunning'[o] = isRunning[o]
                  /\ resonanceData'[o] = resonanceData[o]
                  /\ currentResonance'[o] = currentResonance[o]
                  /\ interval'[o] = interval[o]
                  /\ pendingTicks'[o] = pendingTicks[o]
        /\ Closed(s) =>
             /\ sessionTime'[s] = 0
             /\ resonanceData'[s] = << >>
             /\ currentResonance'[s] = currentResonance[s]]_vars

====
